---- MODULE Spec2Model ----
(***************************************************************************)
(* Model of the IWSDK ingestion pipeline (ingest-source: generateCache and *)
(* the inference passes it calls) and of the cache directory it writes.    *)
(* Names are strings; a JavaScript object used as a map is a sequence of   *)
(* records in key-insertion order (the order Object.entries yields).       *)
(***************************************************************************)
EXTENDS Integers, Sequences, FiniteSets, TLC

VARIABLES
  repo,                \* the SDK checkout given on the command line (read-only input)
  pc,                  \* position of main()/generateCache()
  run,                 \* number of ingestion runs started so far (also the clock)
  components,          \* generateCache: components (name -> ComponentDefinition)
  systems,             \* generateCache: systems (name -> SystemDefinition)
  types,               \* generateCache: types (name -> TypeDefinition)
  examples,            \* generateCache: examples (ExampleCode[])
  typicalCompositions, \* generateCache: typicalCompositions (CompositionPattern[])
  componentRequires,   \* generateCache: flat REQUIRES edges
  systemQueries,       \* generateCache: flat QUERIES edges
  orderingConstraints, \* generateCache: orderingConstraints
  validationRules,     \* generateCache: validationRules
  wi,                  \* index of the next partition file to write
  disk,                \* the cache directory: partition name -> content
  diskAtStart,         \* the cache directory as it was when the current run started
  completed,           \* the cache directory as each completed run left it, in order
  stderr,              \* main: the error its catch printed for the last run, if any
  srv,                 \* position of the server process and of its tool-call handler
  request,             \* the tool call being handled (or handled last)
  callCount,           \* number of tool calls received so far (also the clock)
  telemetry,           \* the lines of telemetry.jsonl
  failedCalls,         \* the calls during which mkdir or appendFile failed
  response,            \* the response returned last
  enhancedCache,       \* cache-loader: let enhancedCache
  cache,               \* cache-loader: let cache
  memoizedBy,          \* the call whose load built the object enhancedCache holds
  loaders              \* the calls of loadEnhancedCache in flight, by call

vars == <<repo, pc, run, components, systems, types, examples,
          typicalCompositions, componentRequires, systemQueries,
          orderingConstraints, validationRules, wi, disk, diskAtStart, completed, stderr,
          srv, request, callCount, telemetry, failedCalls, response, enhancedCache,
          cache, memoizedBy, loaders>>

serverVars ==
  <<srv, request, callCount, telemetry, failedCalls, response, enhancedCache, cache,
    memoizedBy, loaders>>

(***************************************************************************)
(* Bounds of the explored inputs.                                          *)
(***************************************************************************)
MaxDecls == 2      \* createComponent declarations per source file
MaxFiles == 1      \* source files in the checkout
MaxPlainFiles == 2 \* source files of one untagged declaration each
MaxSystems == 2    \* system classes in the checkout
MaxTypes == 2      \* type declarations in the checkout
MaxExamples == 3   \* example directories
MaxPadding == 9    \* single-component examples in front of a long examples list
MaxPadded == 2     \* example directories that follow the padding
MaxRuns == 2       \* ingestion runs
MaxCalls == 2      \* tool calls the server receives
MaxLoaders == 2    \* tool calls that are in loadEnhancedCache at the same time

(***************************************************************************)
(* Sequence helpers (Array.prototype.includes, [...new Set(a)], filter).   *)
(***************************************************************************)
Includes(s, x) == \E i \in 1..Len(s) : s[i] = x

RECURSIVE Dedupe(_)
Dedupe(s) ==
  IF s = <<>> THEN <<>>
  ELSE LET front == SubSeq(s, 1, Len(s) - 1)
           last == s[Len(s)]
       IN IF Includes(front, last) THEN Dedupe(front)
          ELSE Append(Dedupe(front), last)

NoDuplicates(s) == \A i, j \in 1..Len(s) : s[i] = s[j] => i = j

RECURSIVE Occurrences(_, _)
Occurrences(s, x) ==
  IF s = <<>> THEN 0
  ELSE (IF s[1] = x THEN 1 ELSE 0) + Occurrences(Tail(s), x)

RECURSIVE Flatten(_)
Flatten(ss) == IF ss = <<>> THEN <<>> ELSE ss[1] \o Flatten(Tail(ss))

Range(s) == {s[i] : i \in 1..Len(s)}

SeqsUpTo(S, n) == UNION {[1..k -> S] : k \in 0..n}

(***************************************************************************)
(* A map keyed by `name`, in key-insertion order.  Put is `m[k] = v`:      *)
(* an existing key keeps its position and takes the new value.             *)
(***************************************************************************)
Keys(m) == [i \in 1..Len(m) |-> m[i].name]
Has(m, k) == \E i \in 1..Len(m) : m[i].name = k
Get(m, k) == m[CHOOSE i \in 1..Len(m) : m[i].name = k]
Put_keepFirst(m, v) == IF Has(m, v.name) THEN m ELSE Append(m, v)

Put(m, v) ==
  IF Has(m, v.name)
  THEN [i \in 1..Len(m) |-> IF m[i].name = v.name THEN v ELSE m[i]]
  ELSE Append(m, v)

RECURSIVE Assign(_, _)
Assign(m, defs) ==
  IF defs = <<>> THEN m ELSE Assign(Put(m, defs[1]), Tail(defs))

(***************************************************************************)
(* The checkout.  A source file is the sequence of its createComponent     *)
(* declarations (each with the names listed by the @requires tag of its    *)
(* own doc comment, <<>> when it has none) and the sequence of names X of  *)
(* its hasComponent/getComponent(entity, X) calls.  A system class is its  *)
(* name and the element texts of its `required` arrays.  An example        *)
(* directory either has an entry file, given by the identifiers of its     *)
(* @iwsdk import statements, or has none.                                  *)
(***************************************************************************)
\* const packages = ['core', 'xr-input', 'glxf', 'locomotor']
Packages == <<"core", "xr-input", "glxf", "locomotor">>
InputPackages == {"core", "xr-input"}
DeclNames == {"OneHandGrabbable", "Interactable"}
TypeNames == {"GrabOptions"}
TypeKinds == {"interface", "enum"}
Tags == {<<>>, <<"Interactable", "PhysicsShape", "Interactable">>}
CallLists == {<<>>, <<"Interactable", "OneHandGrabbable", "Interactable">>}
SystemNames == {"GrabSystem", "PhysicsSystem"}
RequiredLists == {<<>>, <<"Interactable", "entity", "Interactable", "Camera">>,
                  <<"OneHandGrabbable", "Interactable">>}
ImportLists == {<<"OneHandGrabbable">>,
                <<"OneHandGrabbable", "Interactable">>,
                <<"Interactable", "world", "OneHandGrabbable", "GrabSystem",
                  "Interactable">>}

\* A declaration `const X = createComponent('X', schema, description?)` with
\* the doc comments before it: `schema` is the properties of the object
\* literal (nested: the property's value is itself an object literal), `arg3`
\* is <<>> or << the text of the third argument >>, `jsDoc` is the summary of
\* each doc comment in file order (<<>> for a comment that has none).  A text
\* is a sequence of pieces, the quote characters and blanks pieces of their own.
Declaration(name, tag) ==
  [name |-> name, tag |-> tag, schema |-> <<>>, arg3 |-> <<>>,
   jsDoc |-> IF tag = <<>> THEN <<>> ELSE << <<>> >>]
Schemas ==
  {<<>>,
   << [name |-> "enabled", nested |-> TRUE, type |-> <<"Types.", "Boolean">>],
      [name |-> "version", nested |-> FALSE, type |-> <<>>] >>}
DescriptionArgs ==
  {<<>>,
   << <<"'", "Marks an entity as interactive", "'">> >>,
   << <<"\"", "Marks an entity", "'", "s state", "\"">> >>,
   << <<"'", "'">> >>}
DocComments ==
  {<<>>, << <<>> >>, << <<"An interactive entity", " ">> >>,
   << <<"Deprecated marker">>, <<"An interactive entity", " ">> >>}
Decls == {Declaration(n, t) : n \in DeclNames, t \in Tags}
DescribedDecls ==
  {[Declaration("Interactable", <<>>) EXCEPT !.schema = sc, !.arg3 = a, !.jsDoc = j] :
     sc \in Schemas, a \in DescriptionArgs, j \in DocComments}
DeclLists == {ds \in SeqsUpTo(Decls, MaxDecls) :
                /\ Len(ds) >= 1
                /\ \A i, j \in 1..Len(ds) : ds[i].name = ds[j].name => i = j}
SourceFiles == [decls : DeclLists, calls : CallLists, pkg : {"core"}]
PlainFiles ==
  [decls : {<< Declaration(n, <<>>) >> : n \in DeclNames},
   calls : {<<>>}, pkg : InputPackages]
DescribedFiles == [decls : {<<d>> : d \in DescribedDecls}, calls : {<<>>}, pkg : {"core"}]
SystemClasses ==
  [name : {"GrabSystem"}, required : RequiredLists, pkg : InputPackages]
    \cup [name : {"PhysicsSystem"}, required : {<<"OneHandGrabbable", "Interactable">>},
          pkg : {"core"}]
TypeDecls == [name : TypeNames, kind : TypeKinds, pkg : InputPackages]
ExampleDirs == [hasEntry : {TRUE}, imports : ImportLists]
                 \cup {[hasEntry |-> FALSE, imports |-> <<>>]}

\* join(repoPath, 'packages', pkg, 'src')
SrcDir(pkg) ==
  CASE pkg = "core" -> "packages/core/src"
    [] pkg = "xr-input" -> "packages/xr-input/src"
    [] pkg = "glxf" -> "packages/glxf/src"
    [] pkg = "locomotor" -> "packages/locomotor/src"
AllDirs ==
  {".", "packages", "packages/core"} \cup {SrcDir(Packages[i]) : i \in 1..Len(Packages)}
\* a path of the checkout exists (`.` is repoPath itself)
existsSync(r, path) == path \in r.dirs

\* the files of a checkout in directory-listing order, whatever their package
FileLists ==
  SeqsUpTo(SourceFiles, MaxFiles) \cup SeqsUpTo(PlainFiles, MaxPlainFiles)
    \cup {<<f>> : f \in DescribedFiles}
SystemLists == SeqsUpTo(SystemClasses, MaxSystems)
TypeLists == SeqsUpTo(TypeDecls, MaxTypes)
Padding ==
  [i \in 1..MaxPadding |-> [hasEntry |-> TRUE, imports |-> <<"OneHandGrabbable">>]]
ExampleLists ==
  SeqsUpTo(ExampleDirs, MaxExamples)
    \cup {Padding \o tail : tail \in SeqsUpTo(ExampleDirs, MaxPadded)}

DefaultFiles ==
  << [decls |-> << Declaration("OneHandGrabbable", <<>>),
                   Declaration("Interactable", <<>>) >>,
      calls |-> <<>>, pkg |-> "core"] >>
DefaultSystems ==
  << [name |-> "GrabSystem",
      required |-> <<"Interactable", "entity", "Interactable", "Camera">>,
      pkg |-> "core"] >>
DefaultTypes == << [name |-> "GrabOptions", kind |-> "interface", pkg |-> "core"] >>
DefaultExamples ==
  << [hasEntry |-> TRUE, imports |-> <<"OneHandGrabbable", "Interactable">>],
     [hasEntry |-> TRUE, imports |-> <<"OneHandGrabbable">>] >>

\* item.endsWith('System') and item[0] === item[0].toUpperCase(), /^[A-Z]/
EndsWithSystem(item) == item \in {"GrabSystem", "PhysicsSystem"}
IsCapitalized(item) == item \notin {"world", "entity"}

(***************************************************************************)
(* Declaration extraction.                                                 *)
(***************************************************************************)
\* `@iwsdk/${pkg}`
PackageId(pkg) ==
  CASE pkg = "core" -> "@iwsdk/core"
    [] pkg = "xr-input" -> "@iwsdk/xr-input"
    [] pkg = "glxf" -> "@iwsdk/glxf"
    [] pkg = "locomotor" -> "@iwsdk/locomotor"

\* if (!existsSync(srcDir)) continue, the guard of each of the three scans
SkipsPackage_never(r, pkg) == FALSE
SkipsPackage(r, pkg) == ~existsSync(r, SrcDir(pkg))

\* readdir(dir) of parse...InDir rejects with ENOENT on a directory that is
\* not there
readdirRejects(r, packages) ==
  \E i \in 1..Len(packages) :
    ~SkipsPackage(r, packages[i]) /\ ~existsSync(r, SrcDir(packages[i]))

\* text.replace(/['"]/g, '')
IsQuote(piece) == piece \in {"'", "\""}
StripQuotes(text) == SelectSeq(text, LAMBDA piece : ~IsQuote(piece))

\* text.trim()
RECURSIVE TrimStart(_)
TrimStart(text) ==
  IF text # <<>> /\ text[1] = " " THEN TrimStart(Tail(text)) ELSE text
RECURSIVE TrimEnd(_)
TrimEnd(text) ==
  IF text # <<>> /\ text[Len(text)] = " "
  THEN TrimEnd(SubSeq(text, 1, Len(text) - 1)) ELSE text
Trim(text) == TrimEnd(TrimStart(text))

\* prop.initializer.getText().replace('Types.', '')
ReplaceTypes(text) ==
  IF text # <<>> /\ text[1] = "Types." THEN Tail(text) ELSE text

\* the description of extractJSDoc: each doc comment that has a summary
\* overwrites result.description, '' when none has
RECURSIVE extractJSDoc(_, _)
extractJSDoc(jsDocComments, description) ==
  IF jsDocComments = <<>> THEN description
  ELSE extractJSDoc(Tail(jsDocComments),
         IF jsDocComments[1] # <<>> THEN Trim(jsDocComments[1]) ELSE description)

parseComponentSchema(schema) ==
  LET nested == SelectSeq(schema, LAMBDA prop : prop.nested)
  IN [i \in 1..Len(nested) |->
        [name |-> nested[i].name, type |-> ReplaceTypes(nested[i].type)]]

\* the doc comment first, the third argument only when there is no summary
simpleDescription_docFirst(decl) ==
  IF extractJSDoc(decl.jsDoc, <<>>) # <<>> THEN extractJSDoc(decl.jsDoc, <<>>)
  ELSE IF decl.arg3 # <<>> THEN StripQuotes(decl.arg3[1]) ELSE <<>>
\* descriptionArg ? descriptionArg.getText().replace(...) : jsdoc.description || ''
simpleDescription(decl) ==
  IF decl.arg3 # <<>> THEN StripQuotes(decl.arg3[1])
  ELSE extractJSDoc(decl.jsDoc, <<>>)

ComponentDefinition(decl, packageName, filePath) ==
  [name |-> decl.name, package |-> packageName, filePath |-> filePath,
   description |-> simpleDescription(decl),
   fields |-> parseComponentSchema(decl.schema),
   requires |-> <<>>, optionalWith |-> <<>>, usedBySystems |-> <<>>,
   coOccurrences |-> <<>>]

extractComponentsFromAST(file, packageName, filePath) ==
  Assign(<<>>, [i \in 1..Len(file.decls) |->
                  ComponentDefinition(file.decls[i], packageName, filePath)])

\* the files of packages/<pkg>/src, in listing order; a file is named by its
\* index in the checkout
RECURSIVE parseComponentsInDir(_, _, _, _)
parseComponentsInDir(files, pkg, i, comps) ==
  IF i > Len(files) THEN comps
  ELSE parseComponentsInDir(files, pkg, i + 1,
         IF files[i].pkg = pkg
         THEN Assign(comps, extractComponentsFromAST(files[i], PackageId(pkg), i))
         ELSE comps)

RECURSIVE parseComponentsLoop(_, _, _)
parseComponentsLoop(r, packages, comps) ==
  IF packages = <<>> THEN comps
  ELSE parseComponentsLoop(r, Tail(packages),
         IF SkipsPackage(r, packages[1]) THEN comps
         ELSE parseComponentsInDir(r.files, packages[1], 1, comps))

parseComponents(r) == parseComponentsLoop(r, Packages, <<>>)

extractQueriedComponents(class) ==
  Dedupe(SelectSeq(class.required, IsCapitalized))

SystemDefinition(class, packageName, filePath) ==
  [name |-> class.name, package |-> packageName, filePath |-> filePath,
   queriesComponents |-> extractQueriedComponents(class)]

\* each system class sits in a file of its own, named by its index

RECURSIVE parseSystemsInDir(_, _, _, _)
parseSystemsInDir(classes, pkg, i, syss) ==
  IF i > Len(classes) THEN syss
  ELSE parseSystemsInDir(classes, pkg, i + 1,
         IF classes[i].pkg = pkg
         THEN Put(syss, SystemDefinition(classes[i], PackageId(pkg), i))
         ELSE syss)

RECURSIVE parseSystemsLoop(_, _, _)
parseSystemsLoop(r, packages, syss) ==
  IF packages = <<>> THEN syss
  ELSE parseSystemsLoop(r, Tail(packages),
         IF SkipsPackage(r, packages[1]) THEN syss
         ELSE parseSystemsInDir(r.systems, packages[1], 1, syss))

parseSystems(r) == parseSystemsLoop(r, Packages, <<>>)

TypeDefinition(decl, packageName, filePath) ==
  [name |-> decl.name, package |-> packageName, filePath |-> filePath,
   kind |-> decl.kind]

RECURSIVE parseTypesInDir(_, _, _, _)
parseTypesInDir(decls, pkg, i, tys) ==
  IF i > Len(decls) THEN tys
  ELSE parseTypesInDir(decls, pkg, i + 1,
         IF decls[i].pkg = pkg
         THEN Put(tys, TypeDefinition(decls[i], PackageId(pkg), i))
         ELSE tys)

RECURSIVE parseTypesLoop(_, _, _)
parseTypesLoop(r, packages, tys) ==
  IF packages = <<>> THEN tys
  ELSE parseTypesLoop(r, Tail(packages),
         IF SkipsPackage(r, packages[1]) THEN tys
         ELSE parseTypesInDir(r.types, packages[1], 1, tys))

parseTypes(r) == parseTypesLoop(r, Packages, <<>>)

extractImports(imports, type) ==
  IF type = "systems" THEN SelectSeq(imports, EndsWithSystem)
  ELSE SelectSeq(imports, LAMBDA item : ~EndsWithSystem(item) /\ IsCapitalized(item))

\* code.includes(...) over the entry file, of which the model keeps the
\* imported identifiers
inferCategory(imports) ==
  IF Includes(imports, "Interactable") THEN "interaction"
  ELSE IF Includes(imports, "PhysicsSystem") THEN "physics"
  ELSE IF Includes(imports, "UIKitDocument") THEN "ui"
  ELSE IF Includes(imports, "LocomotionSystem") THEN "locomotion"
  ELSE "setup"

\* code.includes('Grabbable')
MentionsGrabbable(item) ==
  item \in {"OneHandGrabbable", "TwoHandsGrabbable", "DistanceGrabbable"}

inferTags(imports) ==
  (IF Includes(imports, "Interactable") THEN <<"interactable">> ELSE <<>>)
  \o (IF \E i \in 1..Len(imports) : MentionsGrabbable(imports[i])
      THEN <<"grabbing">> ELSE <<>>)
  \o (IF Includes(imports, "PhysicsBody") THEN <<"physics">> ELSE <<>>)
  \o (IF Includes(imports, "UIKitDocument") THEN <<"ui">> ELSE <<>>)
  \o (IF Includes(imports, "LocomotionSystem") THEN <<"locomotion">> ELSE <<>>)
  \o (IF Includes(imports, "AudioSystem") THEN <<"audio">> ELSE <<>>)

ExampleCode(dir) ==
  [code |-> dir.imports,
   category |-> inferCategory(dir.imports),
   tags |-> inferTags(dir.imports),
   componentsUsed |-> extractImports(dir.imports, "components"),
   systemsUsed |-> extractImports(dir.imports, "systems")]

EmptyExamples_merged ==
  IF disk["examples"] = <<>> THEN <<>> ELSE disk["examples"][1]

EmptyExamples == <<>>

RECURSIVE parseExamplesLoop(_, _)
parseExamplesLoop(dirs, acc) ==
  IF dirs = <<>> THEN acc
  ELSE parseExamplesLoop(Tail(dirs),
         IF dirs[1].hasEntry THEN Append(acc, ExampleCode(dirs[1])) ELSE acc)

parseExamples(r) == parseExamplesLoop(r.examples, EmptyExamples)

(***************************************************************************)
(* Requires inference (extractComponentRelationships).  The static table   *)
(* is a local of the function; `component.requires = table[name]` shares   *)
(* the table's array, so the pushes that follow also change the table      *)
(* entry, until the final `[...new Set(...)]` gives the record its own     *)
(* copy.                                                                   *)
(***************************************************************************)
knownRelationships ==
  [n \in {"OneHandGrabbable", "TwoHandsGrabbable", "DistanceGrabbable", "PhysicsBody"}
     |-> IF n = "PhysicsBody" THEN <<"PhysicsShape">> ELSE <<"Interactable">>]

\* existsSync(join(repoPath, component.filePath)): filePath was cut at the
\* first 'packages/' of the absolute path.
SourceFileExists(r, filePath) == r.pathOk /\ filePath \in 1..Len(r.files)

\* content.match(/\/\*\*[\s\S]*?@requires\s+([\w,\s]+)/), split and trimmed:
\* the first @requires tag of the file, whichever declaration carries it.
requiresMatch(file) ==
  LET tagged == {i \in 1..Len(file.decls) : file.decls[i].tag # <<>>}
  IN IF tagged = {} THEN <<>>
     ELSE file.decls[CHOOSE i \in tagged : \A j \in tagged : i <= j].tag

RECURSIVE visitCalls(_, _, _)
visitCalls(requires, calls, componentName) ==
  IF calls = <<>> THEN requires
  ELSE visitCalls(
         IF calls[1] # componentName /\ ~Includes(requires, calls[1])
         THEN Append(requires, calls[1]) ELSE requires,
         Tail(calls), componentName)

DedupeRequires_kept(requires) == requires

DedupeRequires(requires) == Dedupe(requires)

RECURSIVE extractRelationshipsLoop(_, _, _, _)
extractRelationshipsLoop(r, comps, table, i) ==
  IF i > Len(comps) THEN comps
  ELSE
    LET c == comps[i]
        known == c.name \in DOMAIN table
        seeded == IF known THEN table[c.name] ELSE c.requires
    IN IF ~SourceFileExists(r, c.filePath)
       THEN extractRelationshipsLoop(r, [comps EXCEPT ![i].requires = seeded],
                                     table, i + 1)
       ELSE
         LET file == r.files[c.filePath]
             pushed == visitCalls(seeded \o requiresMatch(file), file.calls, c.name)
             table2 == IF known THEN [table EXCEPT ![c.name] = pushed] ELSE table
         IN extractRelationshipsLoop(r,
              [comps EXCEPT ![i].requires = DedupeRequires(pushed)], table2, i + 1)

extractComponentRelationships(r, comps) ==
  extractRelationshipsLoop(r, comps, knownRelationships, 1)

(***************************************************************************)
(* System/component cross-reference (buildSystemComponentRelationships).   *)
(***************************************************************************)
linkQueries_firstOnly(comps, systemName, names) ==
  IF names = <<>> \/ ~Has(comps, names[1]) THEN comps
  ELSE [i \in 1..Len(comps) |->
          IF comps[i].name = names[1]
          THEN [comps[i] EXCEPT !.usedBySystems = Append(@, systemName)]
          ELSE comps[i]]

RECURSIVE linkQueries(_, _, _)
linkQueries(comps, systemName, names) ==
  IF names = <<>> THEN comps
  ELSE linkQueries(
         IF Has(comps, names[1]) /\ ~Includes(Get(comps, names[1]).usedBySystems, systemName)
         THEN [i \in 1..Len(comps) |->
                 IF comps[i].name = names[1]
                 THEN [comps[i] EXCEPT !.usedBySystems = Append(@, systemName)]
                 ELSE comps[i]]
         ELSE comps,
         systemName, Tail(names))

RECURSIVE buildSystemComponentRelationships(_, _)
buildSystemComponentRelationships(syss, comps) ==
  IF syss = <<>> THEN comps
  ELSE buildSystemComponentRelationships(Tail(syss),
         linkQueries(comps, syss[1].name, syss[1].queriesComponents))

(***************************************************************************)
(* Co-occurrence analysis (analyzeComponentCoOccurrences).  A frequency    *)
(* count / total is kept as the pair of its two integers.                  *)
(***************************************************************************)
examplesWithComponent(exs, name) ==
  SelectSeq(exs, LAMBDA ex : Includes(ex.componentsUsed, name))

\* the counting loop: one increment per element of componentsUsed
countCoOccurrences(with, name) ==
  LET others == SelectSeq(Flatten([i \in 1..Len(with) |-> with[i].componentsUsed]),
                          LAMBDA o : o # name)
      keys == Dedupe(others)
  IN [i \in 1..Len(keys) |-> [name |-> keys[i], count |-> Occurrences(others, keys[i])]]

IsHighFrequency_inclusive(count, total) == 2 * count >= total /\ count < total

\* freq > 0.5 && freq < 1.0
IsHighFrequency(count, total) == 2 * count > total /\ count < total

analyzeComponent(c, exs) ==
  LET with == examplesWithComponent(exs, c.name)
      counts == countCoOccurrences(with, c.name)
      co == Assign(c.coOccurrences,
                   [i \in 1..Len(counts) |->
                      [name |-> counts[i].name, count |-> counts[i].count,
                       total |-> Len(with)]])
      high == SelectSeq(co, LAMBDA e : IsHighFrequency(e.count, e.total))
  IN IF Len(with) = 0 THEN c
     ELSE [c EXCEPT !.coOccurrences = co, !.optionalWith = Keys(high)]

analyzeComponentCoOccurrences(comps, exs) ==
  [i \in 1..Len(comps) |-> analyzeComponent(comps[i], exs)]

(***************************************************************************)
(* Typical compositions (extractTypicalCompositions).  Array.prototype.sort *)
(* without a comparator orders strings by code unit; NameOrder lists the    *)
(* identifiers of the inputs in that order.  A pattern's key, the sorted    *)
(* names joined by '|', and its name, the key with '+' for '|', are both    *)
(* modelled by the sorted sequence itself.  A frequency count / total is    *)
(* kept as the pair of its integers.                                        *)
(***************************************************************************)
NameOrder ==
  << "Camera", "DistanceGrabbable", "GrabSystem", "Interactable",
     "OneHandGrabbable", "PhysicsBody", "PhysicsShape", "PhysicsSystem",
     "TwoHandsGrabbable", "entity", "world" >>
NameRank(n) == CHOOSE i \in 1..Len(NameOrder) : NameOrder[i] = n

RECURSIVE InsertSorted(_, _)
InsertSorted(sorted, n) ==
  IF sorted = <<>> THEN <<n>>
  ELSE IF NameRank(n) < NameRank(sorted[1]) THEN <<n>> \o sorted
  ELSE <<sorted[1]>> \o InsertSorted(Tail(sorted), n)

RECURSIVE SortNames(_)
SortNames(names) ==
  IF names = <<>> THEN <<>>
  ELSE InsertSorted(SortNames(SubSeq(names, 1, Len(names) - 1)), names[Len(names)])

\* one pass of the first loop: patterns.get(key).count++ or patterns.set(key, ...)
countPattern(patterns, example) ==
  IF Len(example.componentsUsed) < 2 THEN patterns
  ELSE LET sortedComps == SortNames(example.componentsUsed)
       IN IF Has(patterns, sortedComps)
          THEN [i \in 1..Len(patterns) |->
                  IF patterns[i].name = sortedComps
                  THEN [patterns[i] EXCEPT !.count = @ + 1]
                  ELSE patterns[i]]
          ELSE Append(patterns,
                 [name |-> sortedComps, components |-> sortedComps, count |-> 1,
                  category |-> example.category])

RECURSIVE countPatterns(_, _)
countPatterns(exs, patterns) ==
  IF exs = <<>> THEN patterns
  ELSE countPatterns(Tail(exs), countPattern(patterns, exs[1]))

\* pattern.count >= 2 || (pattern.count / totalExamples) > 0.1
IsCommonPattern(count, totalExamples) ==
  count >= 2 \/ 10 * count > totalExamples

CompositionPattern(pattern, totalExamples) ==
  [name |-> pattern.name, components |-> pattern.components,
   frequency |-> <<pattern.count, totalExamples>>, category |-> pattern.category]

\* sort((a, b) => b.frequency - a.frequency): stable, highest frequency first;
\* all frequencies share the denominator
RECURSIVE InsertByFrequency(_, _)
InsertByFrequency(sorted, p) ==
  IF sorted = <<>> THEN <<p>>
  ELSE IF p.frequency[1] > sorted[1].frequency[1] THEN <<p>> \o sorted
  ELSE <<sorted[1]>> \o InsertByFrequency(Tail(sorted), p)

RECURSIVE SortByFrequency(_)
SortByFrequency(ps) ==
  IF ps = <<>> THEN <<>>
  ELSE InsertByFrequency(SortByFrequency(SubSeq(ps, 1, Len(ps) - 1)), ps[Len(ps)])

extractTypicalCompositions(exs) ==
  LET patterns == countPatterns(exs, <<>>)
      totalExamples == IF Len(exs) = 0 THEN 1 ELSE Len(exs)
      common == SelectSeq(patterns,
                  LAMBDA p : IsCommonPattern(p.count, totalExamples))
  IN SortByFrequency([i \in 1..Len(common) |->
                        CompositionPattern(common[i], totalExamples)])

(***************************************************************************)
(* Derived edges, ordering constraints and validation rules.               *)
(***************************************************************************)
flattenRequires(comps) ==
  Flatten([i \in 1..Len(comps) |->
             [j \in 1..Len(comps[i].requires) |->
                [from |-> comps[i].name, to |-> comps[i].requires[j], type |-> "REQUIRES"]]])

flattenQueries(syss) ==
  Flatten([i \in 1..Len(syss) |->
             [j \in 1..Len(syss[i].queriesComponents) |->
                [from |-> syss[i].name, to |-> syss[i].queriesComponents[j],
                 type |-> "QUERIES"]]])

OrderingOf_swapped(name, requires) ==
  [j \in 1..Len(requires) |-> [before |-> requires[j], after |-> name]]

OrderingOf(name, requires) ==
  [j \in 1..Len(requires) |-> [before |-> name, after |-> requires[j]]]

generateOrderingConstraints(comps) ==
  Flatten([i \in 1..Len(comps) |-> OrderingOf(comps[i].name, comps[i].requires)])

NeedsRequiresRule_always(c) == Len(c.requires) >= 0

NeedsRequiresRule(c) == Len(c.requires) > 0

\* a rule's id is the sequence of the parts joined by '-'; `check` keeps the
\* names the check text lists (the description and the message name the same
\* ones)
componentRules(c) ==
  (IF NeedsRequiresRule(c)
   THEN << [id |-> <<"component", c.name, "requires">>, check |-> c.requires,
            severity |-> "error"] >>
   ELSE <<>>)
  \o (IF Len(c.usedBySystems) > 0
      THEN << [id |-> <<"component", c.name, "system">>,
               check |-> c.usedBySystems, severity |-> "warning"] >>
      ELSE <<>>)

systemRules_asError(s) ==
  IF Len(s.queriesComponents) > 0
  THEN << [id |-> <<"system", s.name, "components">>,
           check |-> s.queriesComponents, severity |-> "error"] >>
  ELSE <<>>

systemRules(s) ==
  IF Len(s.queriesComponents) > 0
  THEN << [id |-> <<"system", s.name, "components">>,
           check |-> s.queriesComponents, severity |-> "warning"] >>
  ELSE <<>>

generateValidationRules(comps, syss) ==
  Flatten([i \in 1..Len(comps) |-> componentRules(comps[i])])
  \o Flatten([i \in 1..Len(syss) |-> systemRules(syss[i])])
  \o << [id |-> <<"entity-creation">>, check |-> <<>>, severity |-> "warning"] >>

(***************************************************************************)
(* The cache directory.  A partition file is <<>> while it does not exist  *)
(* and <<content>> once written.                                           *)
(***************************************************************************)
Partitions ==
  << "metadata", "components", "systems", "types", "examples", "relationships",
     "common-mistakes", "exports", "best-practices", "setup-guides",
     "asset-guides", "troubleshooting" >>

GuidesDir == "docs/guides"
CacheFiles == Range(Partitions) \cup {GuidesDir}
EmptyCache == [p \in CacheFiles |-> <<>>]

\* the object written to exports.json: a map keyed by package id
packageExports(comps, syss, tys) ==
  << [name |-> "@iwsdk/core",
      classes |-> Keys(syss),
      functions |-> <<"createComponent", "createSystem">>,
      types |-> Keys(SelectSeq(tys, LAMBDA t : t.package = "@iwsdk/core")),
      components |-> Keys(comps),
      systems |-> Keys(syss)] >>

\* data.packageExports[packageName] || null, null being <<>>
getPackageExports(packageExportsData, packageName) ==
  IF Has(packageExportsData, packageName)
  THEN <<Get(packageExportsData, packageName)>>
  ELSE <<>>

\* the value handed to JSON.stringify for each writeFile of generateCache
\* the fixed list of common mistakes; `contains` lists the lower-case queries
\* that occur in the title, the description or the category
generateCommonMistakes ==
  << [title |-> "Missing PhysicsShape with PhysicsBody", category |-> "physics",
      contains |-> {"physics"}],
     [title |-> "Missing Interactable with Grabbable Components",
      category |-> "interaction", contains |-> {"grabbable", "interactable"}],
     [title |-> "Using createEntity() for 3D Positioned Objects", category |-> "entity",
      contains |-> {}],
     [title |-> "Forgetting to Register System", category |-> "system",
      contains |-> {}],
     [title |-> "Incorrect Import Statement", category |-> "import", contains |-> {}],
     [title |-> "Wrong Component Addition Order", category |-> "component",
      contains |-> {}] >>

PartitionContent(p) ==
  CASE p = "metadata" -> [ingestDate |-> run, iwsdkVersion |-> repo.version]
    [] p = "components" -> components
    [] p = "systems" -> systems
    [] p = "types" -> types
    [] p = "examples" -> examples
    [] p = "relationships" ->
         [componentRequires |-> componentRequires, systemQueries |-> systemQueries,
          typicalCompositions |-> typicalCompositions,
          ordering |-> orderingConstraints, validation |-> validationRules]
    [] p = "common-mistakes" -> generateCommonMistakes
    [] p = "exports" -> packageExports(components, systems, types)
    [] OTHER -> p

NoLocals ==
  /\ components' = <<>>
  /\ systems' = <<>>
  /\ types' = <<>>
  /\ examples' = <<>>
  /\ typicalCompositions' = <<>>
  /\ componentRequires' = <<>>
  /\ systemQueries' = <<>>
  /\ orderingConstraints' = <<>>
  /\ validationRules' = <<>>
  /\ wi' = 1

Exit(status) == pc' = status /\ NoLocals

\* main: catch (error) { console.error('\nIngestion failed:', error); process.exit(1) }
Fail(message) == Exit("failed") /\ stderr' = <<message>>

validateRepoPath(r) ==
  IF ~existsSync(r, ".") THEN <<"Repository path does not exist">>
  ELSE IF ~existsSync(r, "packages")
       THEN <<"Not a valid IWSDK repository (missing packages/ directory)">>
  ELSE IF ~existsSync(r, "packages/core")
       THEN <<"Not a valid IWSDK repository (missing packages/core)">>
  ELSE <<>>

(***************************************************************************)
(* generateCache as a function of the checkout: the cache directory a      *)
(* completed run at time `date` leaves.                                    *)
(***************************************************************************)
generateCache(r, date) ==
  LET syss == parseSystems(r)
      tys == parseTypes(r)
      exs == parseExamples(r)
      comps == analyzeComponentCoOccurrences(
                 buildSystemComponentRelationships(syss,
                   extractComponentRelationships(r, parseComponents(r))), exs)
  IN [p \in CacheFiles |->
        << CASE p = "metadata" -> [ingestDate |-> date, iwsdkVersion |-> r.version]
             [] p = "components" -> comps
             [] p = "systems" -> syss
             [] p = "types" -> tys
             [] p = "examples" -> exs
             [] p = "relationships" ->
                  [componentRequires |-> flattenRequires(comps),
                   systemQueries |-> flattenQueries(syss),
                   typicalCompositions |-> extractTypicalCompositions(exs),
                   ordering |-> generateOrderingConstraints(comps),
                   validation |-> generateValidationRules(comps, syss)]
             [] p = "common-mistakes" -> generateCommonMistakes
             [] p = "exports" -> packageExports(comps, syss, tys)
             [] OTHER -> p >>]

(***************************************************************************)
(* The serving side: the cache loader and its accessors.  A memo (the      *)
(* module variables enhancedCache and cache of the loader) is <<>> while   *)
(* null and <<data>> once set.                                             *)
(***************************************************************************)
LoadedPartitions ==
  << "metadata", "components", "systems", "types", "examples", "relationships",
     "common-mistakes", "exports" >>

EnhancedCacheData(d) ==
  [metadata |-> d["metadata"][1],
   components |-> d["components"][1],
   systems |-> d["systems"][1],
   types |-> d["types"][1],
   examples |-> d["examples"][1],
   relationships |->
     [componentRequires |-> d["relationships"][1].componentRequires,
      systemQueries |-> d["relationships"][1].systemQueries,
      typicalCompositions |-> d["relationships"][1].typicalCompositions],
   constraints |->
     [ordering |-> d["relationships"][1].ordering,
      validation |-> d["relationships"][1].validation],
   troubleshooting |-> [commonMistakes |-> d["common-mistakes"][1]],
   packageExports |-> d["exports"][1]]

\* A partition file holds the text generateCache wrote, <<content>>; a file
\* that was cut short holds that text without its end, <<content, "cut short">>
Truncated(file) == Append(file, "cut short")

\* readFile(path, 'utf-8').then(JSON.parse): the error it rejects with, if any
readRejects(d, p) ==
  IF d[p] = <<>> THEN <<"ENOENT: no such file or directory, open", p>>
  ELSE IF Len(d[p]) # 1 THEN <<"Unexpected end of JSON input", p>>
  ELSE <<>>

\* Promise.all over the eight readFile calls rejects with the error of a
\* missing or unparsable file; nothing is memoized then
loadEnhancedCache(memo, d) ==
  LET failing == {p \in Range(LoadedPartitions) : readRejects(d, p) # <<>>}
  IN IF memo # <<>> THEN [rejected |-> <<>>, enhancedCache |-> memo]
     ELSE IF failing # {}
     THEN [rejected |-> readRejects(d, CHOOSE p \in failing : TRUE),
           enhancedCache |-> <<>>]
     ELSE [rejected |-> <<>>, enhancedCache |-> <<EnhancedCacheData(d)>>]

CacheData(enhanced) ==
  [codeExamples |->
     [i \in 1..Len(enhanced.examples) |->
        [code |-> enhanced.examples[i].code,
         category |-> enhanced.examples[i].category,
         tags |-> enhanced.examples[i].tags]],
   componentSchemas |->
     [i \in 1..Len(enhanced.components) |-> [name |-> enhanced.components[i].name]],
   packageExports |-> enhanced.packageExports]

loadCache(legacy, memo, d) ==
  LET loaded == loadEnhancedCache(memo, d)
  IN IF legacy # <<>>
     THEN [rejected |-> <<>>, enhancedCache |-> memo, cache |-> legacy]
     ELSE IF loaded.rejected # <<>>
     THEN [rejected |-> loaded.rejected, enhancedCache |-> loaded.enhancedCache,
           cache |-> <<>>]
     ELSE [rejected |-> <<>>, enhancedCache |-> loaded.enhancedCache,
           cache |-> <<CacheData(loaded.enhancedCache[1])>>]

\* rule.id.includes(x) || rule.description.includes(x) || rule.check.includes(x)
RuleMentions(rule, x) == Includes(rule.id, x) \/ Includes(rule.check, x)

\* componentOrSystem is <<>> when undefined and <<x>> otherwise
getValidationRules(enhanced, componentOrSystem) ==
  IF componentOrSystem = <<>> THEN enhanced.constraints.validation
  ELSE SelectSeq(enhanced.constraints.validation,
         LAMBDA rule : RuleMentions(rule, componentOrSystem[1]))

\* `!component` holds of the empty string
getOrderingConstraints(enhanced, component) ==
  IF component = "" THEN enhanced.constraints.ordering
  ELSE SelectSeq(enhanced.constraints.ordering,
         LAMBDA c : c.before = component \/ c.after = component)

(***************************************************************************)
(* The tools.  A tool returns its response and the loader's two memos as   *)
(* it leaves them.  A response is the sequence of the parts of its text;   *)
(* a rejected load surfaces as the handler's `Error: <message>`.           *)
(***************************************************************************)
\* the catch of the handler: text `Error: ${errorMessage}`
ErrorText_bare(errorMessage) == errorMessage
ErrorText(errorMessage) == <<"Error", errorMessage>>

LoadError(loaded) ==
  [response |-> ErrorText(loaded.rejected),
   enhancedCache |-> loaded.enhancedCache, cache |-> loaded.cache]

getValidationRulesForComponent(legacy, memo, d, componentOrSystem) ==
  LET loaded == loadEnhancedCache(memo, d)
      rules == getValidationRules(loaded.enhancedCache[1], componentOrSystem)
  IN IF loaded.rejected # <<>>
     THEN LoadError([rejected |-> loaded.rejected,
                     enhancedCache |-> loaded.enhancedCache, cache |-> legacy])
     ELSE [response |->
             IF rules = <<>> THEN <<"No validation rules", componentOrSystem>>
             ELSE <<"Validation Rules", componentOrSystem, rules>>,
           enhancedCache |-> loaded.enhancedCache, cache |-> legacy]

checkComponentOrder(legacy, memo, d, componentName) ==
  LET loaded == loadEnhancedCache(memo, d)
      constraints == getOrderingConstraints(loaded.enhancedCache[1], componentName)
      mustAddBefore == SelectSeq(constraints, LAMBDA c : c.before = componentName)
      mustAddAfter == SelectSeq(constraints, LAMBDA c : c.after = componentName)
  IN IF loaded.rejected # <<>>
     THEN LoadError([rejected |-> loaded.rejected,
                     enhancedCache |-> loaded.enhancedCache, cache |-> legacy])
     ELSE [response |->
             IF constraints = <<>> THEN <<"No ordering constraints", componentName>>
             ELSE <<"Component Ordering", componentName,
                    [i \in 1..Len(mustAddBefore) |-> mustAddBefore[i].after],
                    [i \in 1..Len(mustAddAfter) |-> mustAddAfter[i].before]>>,
           enhancedCache |-> loaded.enhancedCache, cache |-> legacy]

lookupPackageExports(legacy, memo, d, packageName) ==
  LET loaded == loadCache(legacy, memo, d)
      exports == getPackageExports(loaded.cache[1].packageExports, packageName)
  IN IF loaded.rejected # <<>> THEN LoadError(loaded)
     ELSE [response |->
             IF exports = <<>> THEN <<"Package not found", packageName>>
             ELSE <<"Package", exports[1]>>,
           enhancedCache |-> loaded.enhancedCache, cache |-> loaded.cache]

\* description.toLowerCase(), over the descriptions of the requests
LongDescription == "interactable ... (501 characters)"
ToLowerCase(description) ==
  CASE description = "Grabbable" -> "grabbable" [] OTHER -> description

\* lower.includes(tag.toLowerCase())
DescriptionIncludesTag(lower, tag) ==
  \/ lower = tag
  \/ lower = LongDescription /\ tag = "interactable"

\* example.code.toLowerCase().includes(lower)
CodeIncludes(code, lower) ==
  \E i \in 1..Len(code) :
    \/ lower = "interactable" /\ code[i] = "Interactable"
    \/ lower = "grabbable" /\ MentionsGrabbable(code[i])
    \/ lower = "physics" /\ code[i] \in {"PhysicsBody", "PhysicsShape", "PhysicsSystem"}

\* example directories are named example-<n>: no description of the requests
\* occurs in a title or in `Example: <title>`
Score(example, lower) ==
  3 * Len(SelectSeq(example.tags, LAMBDA tag : DescriptionIncludesTag(lower, tag)))
    + (IF CodeIncludes(example.code, lower) THEN 2 ELSE 0)

\* sort((a, b) => b.score - a.score): stable, highest score first
RECURSIVE InsertByScore(_, _)
InsertByScore(sorted, item) ==
  IF sorted = <<>> THEN <<item>>
  ELSE IF item.score > sorted[1].score THEN <<item>> \o sorted
  ELSE <<sorted[1]>> \o InsertByScore(Tail(sorted), item)

RECURSIVE SortByScore(_)
SortByScore(items) ==
  IF items = <<>> THEN <<>>
  ELSE InsertByScore(SortByScore(SubSeq(items, 1, Len(items) - 1)), items[Len(items)])

Slice3(items) == SubSeq(items, 1, IF Len(items) < 3 THEN Len(items) ELSE 3)

\* examples.map(...) builds the scored array; filter, sort and slice work on
\* it and leave the loader's codeExamples as they are
ScoredExamples(codeExamples, lower) ==
  [i \in 1..Len(codeExamples) |->
     [example |-> codeExamples[i], score |-> Score(codeExamples[i], lower)]]

findSimilarCode_sortsInPlace(legacy, memo, d, description) ==
  LET loaded == loadCache(legacy, memo, d)
      scored == SortByScore(ScoredExamples(loaded.cache[1].codeExamples,
                                           ToLowerCase(description)))
      topExamples == Slice3(SelectSeq(scored, LAMBDA item : item.score > 0))
  IN IF loaded.rejected # <<>> THEN LoadError(loaded)
     ELSE [response |->
             IF topExamples = <<>> THEN <<"No similar code examples", description>>
             ELSE <<"Similar Code Examples", description, topExamples>>,
           enhancedCache |-> loaded.enhancedCache,
           cache |-> <<[loaded.cache[1] EXCEPT !.codeExamples =
                          [i \in 1..Len(scored) |-> scored[i].example]]>>]

findSimilarCode(legacy, memo, d, description) ==
  LET loaded == loadCache(legacy, memo, d)
      scored == ScoredExamples(loaded.cache[1].codeExamples, ToLowerCase(description))
      topExamples ==
        Slice3(SortByScore(SelectSeq(scored, LAMBDA item : item.score > 0)))
  IN IF loaded.rejected # <<>> THEN LoadError(loaded)
     ELSE [response |->
             IF topExamples = <<>> THEN <<"No similar code examples", description>>
             ELSE <<"Similar Code Examples", description, topExamples>>,
           enhancedCache |-> loaded.enhancedCache, cache |-> loaded.cache]

\* The code submitted to validate_code is the sequence of its statements;
\* a statement contains the substrings listed for it, among those the tool
\* looks for.
Statements ==
  [text : {"const x = 1"}, contains : {{}}]
    \cup [text : {"entity.addComponent(OneHandGrabbable)"},
          contains : {{"OneHandGrabbable"}}]
    \cup [text : {"entity.addComponent(Interactable)"},
          contains : {{"addComponent(Interactable)", "Interactable"}}]
    \cup [text : {"entity.addComponent(PhysicsBody)"}, contains : {{"PhysicsBody"}}]
    \cup [text : {"const entity = world.createEntity()"},
          contains : {{"world.createEntity()"}}]
    \cup [text : {"entity.object3D.add(new THREE.Mesh(geometry))"},
          contains : {{".object3D", "new THREE.Mesh"}}]
    \cup [text : {"world.registerSystem(LocomotionSystem)"},
          contains : {{"LocomotionSystem", "registerSystem",
                       "registerSystem(LocomotionSystem"}}]
    \cup [text : {"const ui = new UIKitDocument(PhysicsSystem)"},
          contains : {{"UIKitDocument", "PhysicsSystem"}}]
StatementOf(text) == CHOOSE s \in Statements : s.text = text
Codes ==
  {<<"const x = 1">>,
   <<"entity.addComponent(OneHandGrabbable)">>,
   <<"entity.addComponent(Interactable)">>,
   <<"entity.addComponent(Interactable)", "entity.addComponent(OneHandGrabbable)">>,
   <<"entity.addComponent(PhysicsBody)">>,
   <<"const entity = world.createEntity()",
     "entity.object3D.add(new THREE.Mesh(geometry))">>,
   <<"world.registerSystem(LocomotionSystem)",
     "const ui = new UIKitDocument(PhysicsSystem)">>}

\* code.includes(needle)
CodeHas(code, needle) ==
  \E i \in 1..Len(code) : needle \in StatementOf(code[i]).contains

\* rule.id.match(/component-(\w+)-requires/): <<>> when null, else <<name>>
componentMatch(rule) ==
  IF Len(rule.id) = 3 /\ rule.id[1] = "component" /\ rule.id[3] = "requires"
  THEN <<rule.id[2]>> ELSE <<>>

\* `${name} requires ${component.requires.join(', ')} component(s)`
RuleMessage(rule) == <<rule.id[2], "requires">> \o rule.check \o <<"component(s)">>

getComponentRequirements(enhanced, componentName) ==
  IF Has(enhanced.components, componentName)
  THEN Get(enhanced.components, componentName).requires ELSE <<>>

\* the seven fixed checks of validateCode, in order
fixedIssues(code) ==
  (IF CodeHas(code, "world.createEntity()") /\ CodeHas(code, ".object3D")
   THEN << <<"Using createEntity() but accessing object3D">> >> ELSE <<>>)
  \o (IF CodeHas(code, "PhysicsBody") /\ ~CodeHas(code, "PhysicsShape")
      THEN << <<"PhysicsBody without PhysicsShape">> >> ELSE <<>>)
  \o (IF CodeHas(code, "PhysicsSystem") /\ ~CodeHas(code, "registerSystem")
      THEN << <<"PhysicsSystem not registered">> >> ELSE <<>>)
  \o (IF CodeHas(code, "UIKitDocument") /\ ~CodeHas(code, "PanelUISystem")
      THEN << <<"PanelUISystem not registered">> >> ELSE <<>>)
  \o (IF CodeHas(code, "new THREE.Mesh") /\ ~CodeHas(code, "object3D!.add")
      THEN << <<"Created THREE.Mesh but not added to entity or scene">> >> ELSE <<>>)

fixedSuggestions(code) ==
  (IF CodeHas(code, "world.createEntity()") /\ CodeHas(code, ".object3D")
   THEN << <<"Change world.createEntity() to world.createTransformEntity()">> >>
   ELSE <<>>)
  \o (IF /\ CodeHas(code, "addComponent(Interactable)")
         /\ ~CodeHas(code, "onClick") /\ ~CodeHas(code, "onHover")
         /\ ~CodeHas(code, "OneHandGrabbable") /\ ~CodeHas(code, "TwoHandsGrabbable")
      THEN << <<"Interactable component added but no event handlers or grabbing">> >>
      ELSE <<>>)
  \o (IF CodeHas(code, "PhysicsBody") /\ ~CodeHas(code, "PhysicsShape")
      THEN << <<"Add PhysicsShape component">> >> ELSE <<>>)
  \o (IF CodeHas(code, "PhysicsSystem") /\ ~CodeHas(code, "registerSystem")
      THEN << <<"Add: world.registerSystem(PhysicsSystem);">> >> ELSE <<>>)
  \o (IF CodeHas(code, "UIKitDocument") /\ ~CodeHas(code, "PanelUISystem")
      THEN << <<"Add: world.registerSystem(PanelUISystem);">> >> ELSE <<>>)
  \o (IF /\ CodeHas(code, "LocomotionSystem") /\ ~CodeHas(code, "enableLocomotion")
         /\ ~CodeHas(code, "registerSystem(LocomotionSystem")
      THEN << <<"Consider using features.enableLocomotion">> >> ELSE <<>>)
  \o (IF CodeHas(code, "new THREE.Mesh") /\ ~CodeHas(code, "object3D!.add")
      THEN << <<"Add mesh to entity: entity.object3D!.add(mesh);">> >> ELSE <<>>)

\* the inner loop: one entry per requirement the code does not contain
missingOf_firstOnly(rule, requirements, code) ==
  LET missing == SelectSeq(requirements, LAMBDA req : ~CodeHas(code, req))
  IN IF missing = <<>> THEN <<>>
     ELSE << RuleMessage(rule) \o <<"- Missing", missing[1]>> >>
missingOf(rule, requirements, code) ==
  LET missing == SelectSeq(requirements, LAMBDA req : ~CodeHas(code, req))
  IN [i \in 1..Len(missing) |-> RuleMessage(rule) \o <<"- Missing", missing[i]>>]

\* the loop over allRules; every rule whose id matches has severity 'error',
\* so what it finds goes to `issues`
RECURSIVE ruleIssues(_, _, _)
ruleIssues(allRules, enhanced, code) ==
  IF allRules = <<>> THEN <<>>
  ELSE LET rule == allRules[1]
           matched == componentMatch(rule)
           found ==
             IF matched # <<>> /\ CodeHas(code, matched[1]) /\ rule.severity = "error"
             THEN missingOf(rule, getComponentRequirements(enhanced, matched[1]), code)
             ELSE <<>>
       IN found \o ruleIssues(Tail(allRules), enhanced, code)

RECURSIVE ruleSuggestions(_, _, _)
ruleSuggestions(allRules, enhanced, code) ==
  IF allRules = <<>> THEN <<>>
  ELSE LET rule == allRules[1]
           matched == componentMatch(rule)
           found ==
             IF matched # <<>> /\ CodeHas(code, matched[1]) /\ rule.severity # "error"
             THEN [i \in 1..Len(missingOf(rule,
                                  getComponentRequirements(enhanced, matched[1]), code))
                     |-> RuleMessage(rule)]
             ELSE <<>>
       IN found \o ruleSuggestions(Tail(allRules), enhanced, code)

validateCode(legacy, memo, d, code) ==
  LET loaded == loadEnhancedCache(memo, d)
      enhanced == loaded.enhancedCache[1]
      allRules == getValidationRules(enhanced, <<>>)
      issues == fixedIssues(code) \o ruleIssues(allRules, enhanced, code)
      suggestions == fixedSuggestions(code) \o ruleSuggestions(allRules, enhanced, code)
  IN IF loaded.rejected # <<>>
     THEN LoadError([rejected |-> loaded.rejected,
                     enhancedCache |-> loaded.enhancedCache, cache |-> legacy])
     ELSE [response |->
             <<"Code Validation Results",
               IF issues = <<>> /\ suggestions = <<>>
               THEN << [title |-> "No issues found", items |-> <<>>] >>
               ELSE (IF issues # <<>>
                     THEN << [title |-> "Issues Found", items |-> issues] >> ELSE <<>>)
                    \o (IF suggestions # <<>>
                        THEN << [title |-> "Suggestions", items |-> suggestions] >>
                        ELSE <<>>)>>,
           enhancedCache |-> loaded.enhancedCache, cache |-> legacy]

\* scaffold_project.  `templates` is the object literal of scaffoldProject,
\* a template being its description and the names of its files in the order
\* written; AdvertisedTemplates is the enum of the tool's inputSchema.
AdvertisedTemplates ==
  <<"minimal", "interactive", "locomotion", "ui-demo", "full-featured">>
TemplateFiles ==
  <<"package.json", "tsconfig.json", "vite.config.ts", "index.html", "src/main.ts">>
templates ==
  << [name |-> "minimal",
      description |-> "Minimal IWSDK project with basic world setup",
      files |-> TemplateFiles],
     [name |-> "interactive",
      description |-> "Interactive VR project with grabbing and UI",
      files |-> TemplateFiles],
     [name |-> "locomotion",
      description |-> "VR project with full locomotion system",
      files |-> TemplateFiles] >>

\* Array.prototype.sort() over the file names: by UTF-16 code units
FileNameOrder ==
  <<"index.html", "package.json", "src/main.ts", "tsconfig.json", "vite.config.ts">>
SortFileNames(names) == SelectSeq(FileNameOrder, LAMBDA n : Includes(names, n))

getFileExtension(filename) ==
  CASE filename \in {"vite.config.ts", "src/main.ts"} -> "typescript"
    [] filename \in {"package.json", "tsconfig.json"} -> "json"
    [] filename = "index.html" -> "html"
    [] OTHER -> ""

scaffoldProject(legacy, memo, template, projectName) ==
  [response |->
     IF ~Has(templates, template) THEN <<"Template not found", <<template>>>>
     ELSE LET tmpl == Get(templates, template)
          IN <<"Project scaffold", <<projectName, tmpl.description>>,
               SortFileNames(tmpl.files),
               [i \in 1..Len(tmpl.files) |->
                  <<tmpl.files[i], getFileExtension(tmpl.files[i])>>]>>,
   enhancedCache |-> memo, cache |-> legacy]

\* get_common_mistakes.  title.toLowerCase().includes(lowerQuery) ||
\* description... || category...: a mistake lists, among the queries of the
\* requests in lower case, those its three texts contain.
searchCommonMistakes(enhanced, query) ==
  SelectSeq(enhanced.troubleshooting.commonMistakes,
            LAMBDA m : ToLowerCase(query) \in m.contains)

\* category is never passed by getTroubleshootingHelp
getCommonMistakes(enhanced) == enhanced.troubleshooting.commonMistakes

\* `query ?` is false of undefined and of the empty string
getTroubleshootingHelp(legacy, memo, d, query) ==
  LET loaded == loadEnhancedCache(memo, d)
      given == query # <<>> /\ query # <<"">>
      mistakes == IF given THEN searchCommonMistakes(loaded.enhancedCache[1], query[1])
                  ELSE getCommonMistakes(loaded.enhancedCache[1])
  IN IF loaded.rejected # <<>>
     THEN LoadError([rejected |-> loaded.rejected,
                     enhancedCache |-> loaded.enhancedCache, cache |-> legacy])
     ELSE [response |->
             IF mistakes = <<>>
             THEN IF given THEN <<"No common mistakes found", query>>
                  ELSE <<"No troubleshooting information available", <<>>>>
             ELSE <<IF given THEN "Troubleshooting" ELSE "Common Mistakes Guide", query,
                    [i \in 1..Len(mistakes) |-> mistakes[i].title]>>,
           enhancedCache |-> loaded.enhancedCache, cache |-> legacy]

\* get_component_schema.  slice(0, 15) and `allComponents.length - 15`
KnownNamesShown == 15
Slice(items, end) == SubSeq(items, 1, IF Len(items) < end THEN Len(items) ELSE end)

getComponent(enhanced, name) ==
  IF Has(enhanced.components, name) THEN <<Get(enhanced.components, name)>> ELSE <<>>
getAllComponents(enhanced) == enhanced.components

getComponentSchema(legacy, memo, d, componentName) ==
  LET loaded == loadEnhancedCache(memo, d)
      component == getComponent(loaded.enhancedCache[1], componentName)
      allComponents == getAllComponents(loaded.enhancedCache[1])
      knownNames ==
        Slice([i \in 1..Len(allComponents) |-> allComponents[i].name], KnownNamesShown)
  IN IF loaded.rejected # <<>>
     THEN LoadError([rejected |-> loaded.rejected,
                     enhancedCache |-> loaded.enhancedCache, cache |-> legacy])
     ELSE [response |->
             IF component = <<>>
             THEN <<"Component not found", <<componentName>>, knownNames,
                    <<Len(allComponents) - KnownNamesShown>>>>
             ELSE <<"Component", <<component[1].name, component[1].package>>,
                    component[1].requires, component[1].usedBySystems>>,
           enhancedCache |-> loaded.enhancedCache, cache |-> legacy]

(***************************************************************************)
(* The server: requests, telemetry and the CallToolRequestSchema handler.  *)
(* `args` is <<>> when the request carries no arguments object and         *)
(* <<params>> otherwise, params being the map of the arguments.            *)
(***************************************************************************)
Arguments(key, values) == {<< << [name |-> key, value |-> v] >> >> : v \in values}

Requests ==
  [name : {"get_validation_rules"},
   args : {<<>>, << <<>> >>} \cup Arguments("componentOrSystem", {"Interactable"})]
    \cup [name : {"check_component_order"},
          args : Arguments("componentName", {"OneHandGrabbable", "Camera"})]
    \cup [name : {"lookup_package_exports"},
          args : Arguments("packageName", {"@iwsdk/core", "@iwsdk/xr-input"})]
    \cup [name : {"find_similar_code"},
          args : {<< <<>> >>}
                   \cup Arguments("description",
                          {"interactable", "Grabbable", "physics", LongDescription})]
    \cup [name : {"validate_code"}, args : Arguments("code", Codes)]
    \cup {[name |-> "scaffold_project",
             args |-> << << [name |-> "template", value |-> t],
                            [name |-> "projectName", value |-> "my-app"] >> >>] :
             t \in Range(AdvertisedTemplates) \cup {"blank"}}
    \cup [name : {"get_common_mistakes"},
          args : {<<>>, << <<>> >>} \cup Arguments("query", {"physics", "Grabbable",
                                                             "entity creation"})]
    \cup [name : {"get_component_schema"},
          args : Arguments("componentName", {"Interactable", "Health"})]
    \cup [name : {"no_such_tool"}, args : {<<>>, << <<>> >>}]

NoRequest == [name |-> "", args |-> <<>>]

\* args.<key>: <<>> when undefined, <<value>> otherwise
Param(params, key) == IF Has(params, key) THEN <<Get(params, key).value>> ELSE <<>>

\* typeof value === 'string' && value.length > 500
sanitizeParams(params) ==
  [i \in 1..Len(params) |->
     IF params[i].value = LongDescription
     THEN [params[i] EXCEPT !.value = "interactable ... (first 500 characters)... (truncated)"]
     ELSE params[i]]

TelemetryEvent(timestamp, toolName, params) ==
  [timestamp |-> timestamp, tool |-> toolName, params |-> sanitizeParams(params)]

\* fsOk: mkdir and appendFile succeed
logToolCall_rethrows(log, timestamp, toolName, params, fsOk) ==
  [telemetry |-> IF fsOk THEN Append(log, TelemetryEvent(timestamp, toolName, params))
                 ELSE log,
   threw |-> ~fsOk]

logToolCall(log, timestamp, toolName, params, fsOk) ==
  [telemetry |-> IF fsOk THEN Append(log, TelemetryEvent(timestamp, toolName, params))
                 ELSE log,
   threw |-> FALSE]

\* `description.toLowerCase()` of an undefined description, after the load
ThrowsTypeError(loaded, property) ==
  IF loaded.rejected # <<>> THEN LoadError(loaded)
  ELSE [response |->
          ErrorText(<<"Cannot read properties of undefined", property>>),
        enhancedCache |-> loaded.enhancedCache, cache |-> loaded.cache]

\* the switch of the handler
callTool(req, legacy, memo, d) ==
  LET params == req.args[1]
  IN CASE req.name = "get_validation_rules" ->
            getValidationRulesForComponent(legacy, memo, d,
              Param(params, "componentOrSystem"))
       [] req.name = "check_component_order" ->
            checkComponentOrder(legacy, memo, d, Param(params, "componentName")[1])
       [] req.name = "lookup_package_exports" ->
            lookupPackageExports(legacy, memo, d, Param(params, "packageName")[1])
       [] req.name = "find_similar_code" ->
            IF Param(params, "description") = <<>>
            THEN ThrowsTypeError(loadCache(legacy, memo, d), "toLowerCase")
            ELSE findSimilarCode(legacy, memo, d, Param(params, "description")[1])
       [] req.name = "scaffold_project" ->
            scaffoldProject(legacy, memo, Param(params, "template")[1],
                            Param(params, "projectName")[1])
       [] req.name = "get_common_mistakes" ->
            getTroubleshootingHelp(legacy, memo, d, Param(params, "query"))
       [] req.name = "get_component_schema" ->
            getComponentSchema(legacy, memo, d, Param(params, "componentName")[1])
       [] req.name = "validate_code" ->
            validateCode(legacy, memo, d, Param(params, "code")[1])
       [] OTHER ->
            [response |-> ErrorText(<<"Unknown tool", req.name>>),
             enhancedCache |-> memo, cache |-> legacy]

(***************************************************************************)
(* Initial states: a checkout drawn from the bounded input sets, an empty  *)
(* cache directory, no run started.  At most one of the three parts of the *)
(* checkout (sources, systems, examples) departs from its default.         *)
(***************************************************************************)
DefaultCheckout ==
  [dirs |-> AllDirs, pathOk |-> TRUE, version |-> "0.1.0", files |-> DefaultFiles,
   systems |-> DefaultSystems, types |-> DefaultTypes, examples |-> DefaultExamples]

\* a checkout whose root, packages/ or packages/core is not there
InvalidRoots == {{}, {"."}, {".", "packages"}}

\* the checkout r without the src directories of the packages `gone`, and so
\* without the files in them
WithoutSrc(r, gone) ==
  LET Kept(f) == f.pkg \notin gone
  IN [r EXCEPT !.dirs = @ \ {SrcDir(pkg) : pkg \in gone},
               !.files = SelectSeq(@, Kept),
               !.systems = SelectSeq(@, Kept),
               !.types = SelectSeq(@, Kept)]
MissingSrcSets ==
  {{"glxf"}, {"xr-input"}, {"core"}, {"glxf", "locomotor"},
   {"core", "xr-input", "glxf", "locomotor"}}
MixedCheckouts ==
  {DefaultCheckout,
   [DefaultCheckout EXCEPT
      !.files = << [decls |-> << Declaration("Interactable", <<>>) >>,
                    calls |-> <<>>, pkg |-> "xr-input"] >> \o DefaultFiles,
      !.systems = << [name |-> "PhysicsSystem",
                      required |-> <<"OneHandGrabbable", "Interactable">>,
                      pkg |-> "xr-input"] >> \o DefaultSystems]}

Checkouts ==
  {[DefaultCheckout EXCEPT !.files = fs] : fs \in FileLists}
    \cup {[DefaultCheckout EXCEPT !.files = fs, !.pathOk = FALSE] :
            fs \in SeqsUpTo(SourceFiles, 1)}
    \cup {[DefaultCheckout EXCEPT !.systems = ss] : ss \in SystemLists}
    \cup {[DefaultCheckout EXCEPT !.types = ts] : ts \in TypeLists}
    \cup {[DefaultCheckout EXCEPT !.examples = es] : es \in ExampleLists}
    \cup {[DefaultCheckout EXCEPT !.dirs = ds] : ds \in InvalidRoots}
    \cup {WithoutSrc(c, gone) : c \in MixedCheckouts, gone \in MissingSrcSets}

\* a call of loadEnhancedCache: where it stands, the files its readFile
\* calls have delivered so far, and the call whose load built the object it
\* returned (0: none)
NotCalled == [stage |-> "idle", read |-> <<>>, observed |-> 0]

\* the server process does not run
NoServer ==
  /\ srv = "stopped"
  /\ request = NoRequest
  /\ callCount = 0
  /\ telemetry = <<>>
  /\ failedCalls = {}
  /\ response = <<>>
  /\ enhancedCache = <<>>
  /\ cache = <<>>
  /\ memoizedBy = 0
  /\ loaders = [c \in 1..MaxLoaders |-> NotCalled]

Init ==
  /\ NoServer
  /\ repo \in Checkouts
  /\ pc = "idle"
  /\ run = 0
  /\ components = <<>>
  /\ systems = <<>>
  /\ types = <<>>
  /\ examples = <<>>
  /\ typicalCompositions = <<>>
  /\ componentRequires = <<>>
  /\ systemQueries = <<>>
  /\ orderingConstraints = <<>>
  /\ validationRules = <<>>
  /\ wi = 1
  /\ disk = EmptyCache
  /\ diskAtStart = EmptyCache
  /\ completed = <<>>
  /\ stderr = <<>>

(***************************************************************************)
(* main() and generateCache(), one action per call.                        *)
(***************************************************************************)
\* generateOrderingConstraints called ahead of the inference passes
Steps_orderingFirst ==
  << "validate", "parseComponents", "parseSystems", "parseTypes", "parseExamples",
     "ordering", "extractRelationships", "buildSystemRelationships",
     "analyzeCoOccurrences", "typicalCompositions", "flatten", "validation",
     "write" >>

\* the statements of generateCache, in order
Steps ==
  << "validate", "parseComponents", "parseSystems", "parseTypes", "parseExamples",
     "extractRelationships", "buildSystemRelationships", "analyzeCoOccurrences",
     "typicalCompositions", "flatten", "ordering", "validation", "write" >>
After(p) == Steps[(CHOOSE i \in 1..Len(Steps) : Steps[i] = p) + 1]

StartRun ==
  /\ pc \in {"idle", "done", "failed"}
  /\ run < MaxRuns
  /\ run' = run + 1
  /\ pc' = Steps[1]
  /\ diskAtStart' = disk
  /\ stderr' = <<>>
  /\ UNCHANGED <<components, systems, types, examples, typicalCompositions,
                componentRequires, systemQueries, orderingConstraints,
                validationRules, wi, repo, disk, completed, serverVars>>

ValidateRepoPath ==
  /\ pc = "validate"
  /\ IF validateRepoPath(repo) = <<>>
     THEN /\ pc' = After("validate")
          /\ UNCHANGED <<components, systems, types, examples, typicalCompositions,
                         componentRequires, systemQueries, orderingConstraints,
                         validationRules, wi, stderr>>
     ELSE Fail(validateRepoPath(repo)[1])
  /\ UNCHANGED <<repo, run, disk, diskAtStart, completed, serverVars>>

ParseComponents ==
  /\ pc = "parseComponents"
  /\ IF readdirRejects(repo, Packages)
     THEN Fail("ENOENT: no such file or directory, scandir")
     ELSE /\ components' = parseComponents(repo)
          /\ pc' = After("parseComponents")
          /\ UNCHANGED <<systems, types, examples,
                         typicalCompositions, componentRequires, systemQueries,
                         orderingConstraints, validationRules, wi, stderr>>
  /\ UNCHANGED <<repo, run, disk, diskAtStart, completed, serverVars>>

ParseSystems ==
  /\ pc = "parseSystems"
  /\ IF readdirRejects(repo, Packages)
     THEN Fail("ENOENT: no such file or directory, scandir")
     ELSE /\ systems' = parseSystems(repo)
          /\ pc' = After("parseSystems")
          /\ UNCHANGED <<components, types, examples,
                         typicalCompositions, componentRequires, systemQueries,
                         orderingConstraints, validationRules, wi, stderr>>
  /\ UNCHANGED <<repo, run, disk, diskAtStart, completed, serverVars>>

ParseTypes ==
  /\ pc = "parseTypes"
  /\ IF readdirRejects(repo, Packages)
     THEN Fail("ENOENT: no such file or directory, scandir")
     ELSE /\ types' = parseTypes(repo)
          /\ pc' = After("parseTypes")
          /\ UNCHANGED <<components, systems, examples,
                         typicalCompositions, componentRequires, systemQueries,
                         orderingConstraints, validationRules, wi, stderr>>
  /\ UNCHANGED <<repo, run, disk, diskAtStart, completed, serverVars>>

ParseExamples ==
  /\ pc = "parseExamples"
  /\ examples' = parseExamples(repo)
  /\ pc' = After("parseExamples")
  /\ UNCHANGED <<components, systems, types, typicalCompositions,
                componentRequires, systemQueries, orderingConstraints,
                validationRules, wi, repo, run, disk, diskAtStart,
                completed, serverVars, stderr>>

ExtractComponentRelationships ==
  /\ pc = "extractRelationships"
  /\ components' = extractComponentRelationships(repo, components)
  /\ pc' = After("extractRelationships")
  /\ UNCHANGED <<systems, types, examples, typicalCompositions,
                componentRequires, systemQueries, orderingConstraints,
                validationRules, wi, repo, run, disk, diskAtStart,
                completed, serverVars, stderr>>

BuildSystemComponentRelationships ==
  /\ pc = "buildSystemRelationships"
  /\ components' = buildSystemComponentRelationships(systems, components)
  /\ pc' = After("buildSystemRelationships")
  /\ UNCHANGED <<systems, types, examples, typicalCompositions,
                componentRequires, systemQueries, orderingConstraints,
                validationRules, wi, repo, run, disk, diskAtStart,
                completed, serverVars, stderr>>

AnalyzeComponentCoOccurrences ==
  /\ pc = "analyzeCoOccurrences"
  /\ components' = analyzeComponentCoOccurrences(components, examples)
  /\ pc' = After("analyzeCoOccurrences")
  /\ UNCHANGED <<systems, types, examples, typicalCompositions,
                componentRequires, systemQueries, orderingConstraints,
                validationRules, wi, repo, run, disk, diskAtStart,
                completed, serverVars, stderr>>

ExtractTypicalCompositions ==
  /\ pc = "typicalCompositions"
  /\ typicalCompositions' = extractTypicalCompositions(examples)
  /\ pc' = After("typicalCompositions")
  /\ UNCHANGED <<components, systems, types, examples, componentRequires,
                systemQueries, orderingConstraints, validationRules, wi,
                repo, run, disk, diskAtStart, completed, serverVars, stderr>>

FlattenRelationships ==
  /\ pc = "flatten"
  /\ componentRequires' = flattenRequires(components)
  /\ systemQueries' = flattenQueries(systems)
  /\ pc' = After("flatten")
  /\ UNCHANGED <<components, systems, types, examples, typicalCompositions,
                orderingConstraints, validationRules, wi, repo, run, disk,
                diskAtStart, completed, serverVars, stderr>>

GenerateOrderingConstraints ==
  /\ pc = "ordering"
  /\ orderingConstraints' = generateOrderingConstraints(components)
  /\ pc' = After("ordering")
  /\ UNCHANGED <<components, systems, types, examples, typicalCompositions,
                componentRequires, systemQueries, validationRules, wi, repo,
                run, disk, diskAtStart, completed, serverVars, stderr>>

GenerateValidationRules ==
  /\ pc = "validation"
  /\ validationRules' = generateValidationRules(components, systems)
  /\ pc' = After("validation")
  /\ UNCHANGED <<components, systems, types, examples, typicalCompositions,
                componentRequires, systemQueries, orderingConstraints, wi,
                repo, run, disk, diskAtStart, completed, serverVars, stderr>>

\* a readdir or readFile of the scan or of the re-read rejects
ReadFails ==
  /\ pc \in {"parseComponents", "parseSystems", "parseTypes", "parseExamples",
             "extractRelationships"}
  /\ Fail("EIO: i/o error, read")
  /\ UNCHANGED <<repo, run, disk, diskAtStart, completed, serverVars>>

WritePartition ==
  /\ pc = "write"
  /\ disk' = [disk EXCEPT ![Partitions[wi]] = <<PartitionContent(Partitions[wi])>>]
  /\ wi' = wi + 1
  /\ pc' = IF wi = Len(Partitions) THEN "copyGuides" ELSE "write"
  /\ UNCHANGED <<components, systems, types, examples, typicalCompositions,
                componentRequires, systemQueries, orderingConstraints,
                validationRules, repo, run, diskAtStart, completed,
                serverVars, stderr>>

\* mkdir or the writeFile of partition wi rejects
WriteFails ==
  /\ pc = "write"
  /\ Fail("EIO: i/o error, write")
  /\ UNCHANGED <<repo, run, disk, diskAtStart, completed, serverVars>>

CopyGuides ==
  /\ pc = "copyGuides"
  /\ disk' = [disk EXCEPT ![GuidesDir] = <<GuidesDir>>]
  /\ completed' = Append(completed, disk')
  /\ Exit("done")
  /\ UNCHANGED <<repo, run, diskAtStart, serverVars, stderr>>

CopyGuidesFails ==
  /\ pc = "copyGuides"
  /\ Fail("EIO: i/o error, copyfile")
  /\ UNCHANGED <<repo, run, disk, diskAtStart, completed, serverVars>>

Next ==
  \/ StartRun
  \/ ValidateRepoPath
  \/ ParseComponents
  \/ ParseSystems
  \/ ParseTypes
  \/ ParseExamples
  \/ ExtractComponentRelationships
  \/ BuildSystemComponentRelationships
  \/ AnalyzeComponentCoOccurrences
  \/ ExtractTypicalCompositions
  \/ FlattenRelationships
  \/ GenerateOrderingConstraints
  \/ GenerateValidationRules
  \/ ReadFails
  \/ WritePartition
  \/ WriteFails
  \/ CopyGuides
  \/ CopyGuidesFails

Spec == Init /\ [][Next]_vars

(***************************************************************************)
(* The server process over a cache directory an ingestion left behind,     *)
(* complete or lacking one of the partition files the loader reads.        *)
(***************************************************************************)
pipelineVars ==
  <<repo, pc, run, components, systems, types, examples, typicalCompositions,
    componentRequires, systemQueries, orderingConstraints, validationRules, wi,
    disk, diskAtStart, completed, stderr>>

\* sixteen components in one source file of packages/core/src
ManyNames ==
  <<"AudioSource", "Camera", "DistanceGrabbable", "Draggable", "Hovered",
    "Interactable", "LocomotionEnvironment", "OneHandGrabbable", "PanelUI",
    "PhysicsBody", "PhysicsShape", "Pressed", "ScreenSpace", "Transform",
    "TwoHandsGrabbable", "Visibility">>
ManyComponents ==
  [DefaultCheckout EXCEPT !.files =
     << [decls |-> [i \in 1..Len(ManyNames) |-> Declaration(ManyNames[i], <<>>)],
         calls |-> <<>>, pkg |-> "core"] >>]

ServerCheckouts ==
  {DefaultCheckout, ManyComponents,
   [DefaultCheckout EXCEPT !.files =
      << [decls |-> << Declaration("OneHandGrabbable", <<>>) >>,
          calls |-> <<>>, pkg |-> "xr-input"] >>],
   [DefaultCheckout EXCEPT !.files =
      << [decls |-> << Declaration("OneHandGrabbable",
                                   <<"Interactable", "PhysicsShape", "Interactable">>) >>,
          calls |-> <<>>, pkg |-> "core"] >>],
   [DefaultCheckout EXCEPT !.examples =
      << [hasEntry |-> TRUE, imports |-> <<"PhysicsShape", "OneHandGrabbable">>],
         [hasEntry |-> TRUE, imports |-> <<"PhysicsBody", "Interactable">>] >>]}

\* what a completed run left; for the default checkout also that directory
\* with one of the partition files the loader reads gone, or cut short
CacheDirectories(r) ==
  {generateCache(r, 1)}
    \cup (IF r # DefaultCheckout THEN {}
          ELSE {[generateCache(r, 1) EXCEPT ![p] = <<>>] :
                  p \in Range(LoadedPartitions)}
                 \cup {[generateCache(r, 1) EXCEPT ![p] = Truncated(@)] :
                         p \in {"components", "exports"}})

InitServer ==
  /\ NoServer
  /\ repo \in ServerCheckouts
  /\ disk \in CacheDirectories(repo)
  /\ diskAtStart = disk
  /\ pc = "idle"
  /\ run = 0
  /\ components = <<>>
  /\ systems = <<>>
  /\ types = <<>>
  /\ examples = <<>>
  /\ typicalCompositions = <<>>
  /\ componentRequires = <<>>
  /\ systemQueries = <<>>
  /\ orderingConstraints = <<>>
  /\ validationRules = <<>>
  /\ wi = 1
  /\ completed = <<>>
  /\ stderr = <<>>

\* main(): server.connect(transport)
StartServer ==
  /\ srv = "stopped"
  /\ srv' = "listening"
  /\ UNCHANGED <<request, callCount, telemetry, failedCalls, response,
                 enhancedCache, cache, memoizedBy, loaders, pipelineVars>>

\* the handler up to `if (!args) throw new Error('Missing arguments')`
ReceiveCall ==
  /\ srv = "listening"
  /\ callCount < MaxCalls
  /\ \E req \in Requests :
       /\ request' = req
       /\ IF req.args = <<>>
          THEN /\ response' = ErrorText(<<"Missing arguments">>)
               /\ srv' = "listening"
          ELSE /\ response' = <<>>
               /\ srv' = "logging"
  /\ callCount' = callCount + 1
  /\ UNCHANGED <<telemetry, failedCalls, enhancedCache, cache, memoizedBy, loaders,
                 pipelineVars>>

\* await logToolCall(name, args)
LogToolCall ==
  /\ srv = "logging"
  /\ \E fsOk \in BOOLEAN :
       LET logged == logToolCall(telemetry, callCount, request.name,
                                 request.args[1], fsOk)
       IN /\ telemetry' = logged.telemetry
          /\ failedCalls' = IF fsOk THEN failedCalls ELSE failedCalls \cup {callCount}
          /\ IF logged.threw
             THEN /\ response' = ErrorText(<<"appendFile failed">>)
                  /\ srv' = "listening"
             ELSE /\ response' = response
                  /\ srv' = "dispatching"
  /\ UNCHANGED <<request, callCount, enhancedCache, cache, memoizedBy, loaders,
                 pipelineVars>>

\* the switch, and the catch around it
DispatchTool ==
  /\ srv = "dispatching"
  /\ LET out == callTool(request, cache, enhancedCache, disk)
     IN /\ response' = out.response
        /\ enhancedCache' = out.enhancedCache
        /\ cache' = out.cache
        /\ memoizedBy' = IF enhancedCache = <<>> /\ out.enhancedCache # <<>>
                         THEN callCount ELSE memoizedBy
  /\ srv' = "listening"
  /\ UNCHANGED <<request, callCount, telemetry, failedCalls, loaders, pipelineVars>>

NextServer ==
  \/ StartServer
  \/ ReceiveCall
  \/ LogToolCall
  \/ DispatchTool

SpecServer == InitServer /\ [][NextServer]_vars

(***************************************************************************)
(* loadEnhancedCache step by step, as tool calls that run at the same time *)
(* interleave in it: the test of the memo, the eight readFile calls (they  *)
(* are taken to deliver in the order issued) and the assignment of the     *)
(* memo once Promise.all has resolved.                                     *)
(***************************************************************************)
Callers == 1..MaxLoaders

\* the cache directory as the readFile calls of one load saw it
AsRead(read) ==
  [p \in Range(LoadedPartitions) |->
     read[CHOOSE i \in 1..Len(LoadedPartitions) : LoadedPartitions[i] = p]]

\* if (enhancedCache) return enhancedCache; else issue the eight reads
EnterLoad(c) ==
  /\ srv = "listening"
  /\ loaders[c].stage = "idle"
  /\ \A b \in 1..(c - 1) : loaders[b].stage # "idle"
  /\ loaders' = [loaders EXCEPT ![c] =
                   IF enhancedCache # <<>>
                   THEN [stage |-> "returned", read |-> <<>>, observed |-> memoizedBy]
                   ELSE [stage |-> "reading", read |-> <<>>, observed |-> 0]]
  /\ UNCHANGED <<srv, request, callCount, telemetry, failedCalls, response,
                 enhancedCache, cache, memoizedBy, pipelineVars>>

\* one readFile(...).then(JSON.parse) settles; a rejection rejects Promise.all
ReadFile(c) ==
  /\ loaders[c].stage = "reading"
  /\ Len(loaders[c].read) < Len(LoadedPartitions)
  /\ LET p == LoadedPartitions[Len(loaders[c].read) + 1]
     IN loaders' = [loaders EXCEPT ![c] =
                      IF readRejects(disk, p) # <<>>
                      THEN [@ EXCEPT !.stage = "rejected"]
                      ELSE [@ EXCEPT !.read = Append(@, disk[p])]]
  /\ UNCHANGED <<srv, request, callCount, telemetry, failedCalls, response,
                 enhancedCache, cache, memoizedBy, pipelineVars>>

\* enhancedCache = {...}; return enhancedCache
AssignMemo(c) ==
  /\ loaders[c].stage = "reading"
  /\ Len(loaders[c].read) = Len(LoadedPartitions)
  /\ enhancedCache' = <<EnhancedCacheData(AsRead(loaders[c].read))>>
  /\ memoizedBy' = c
  /\ loaders' = [loaders EXCEPT ![c] = [@ EXCEPT !.stage = "returned", !.observed = c]]
  /\ UNCHANGED <<srv, request, callCount, telemetry, failedCalls, response, cache,
                 pipelineVars>>

NextLoader ==
  \/ StartServer
  \/ \E c \in Callers : EnterLoad(c)
  \/ \E c \in Callers : ReadFile(c)
  \/ \E c \in Callers : AssignMemo(c)

\* tool calls running at the same time over a cache directory no one writes
SpecLoader == InitServer /\ [][NextLoader]_vars

\* the cache directory holds what a run over an earlier state of the checkout
\* left; the checkout has changed since
InitReload ==
  /\ NoServer
  /\ repo \in ServerCheckouts
  /\ disk \in {generateCache(earlier, 1) : earlier \in ServerCheckouts \ {repo}}
  /\ diskAtStart = disk
  /\ pc = "idle"
  /\ run = 0
  /\ components = <<>>
  /\ systems = <<>>
  /\ types = <<>>
  /\ examples = <<>>
  /\ typicalCompositions = <<>>
  /\ componentRequires = <<>>
  /\ systemQueries = <<>>
  /\ orderingConstraints = <<>>
  /\ validationRules = <<>>
  /\ wi = 1
  /\ completed = <<>>
  /\ stderr = <<>>

NextReload ==
  \/ Next
  \/ StartServer
  \/ EnterLoad(1)
  \/ ReadFile(1)
  \/ AssignMemo(1)

\* one tool call loads the cache while ingestion runs again
SpecReload == InitReload /\ [][NextReload]_vars

\* a completed run leaves what generateCache, as a function, says
GenerateCacheAgrees ==
  pc = "done" => disk = [generateCache(repo, run) EXCEPT ![GuidesDir] = <<GuidesDir>>]


(***************************************************************************)
(* Positions of a run, and what the cache directory holds.                 *)
(***************************************************************************)
AfterRequiresInference ==
  pc \in {"buildSystemRelationships", "analyzeCoOccurrences", "typicalCompositions",
          "flatten", "ordering", "validation", "write", "copyGuides"}
AfterCrossReference ==
  pc \in {"analyzeCoOccurrences", "typicalCompositions", "flatten", "ordering",
          "validation", "write", "copyGuides"}
AfterCoOccurrence ==
  pc \in {"typicalCompositions", "flatten", "ordering", "validation", "write",
          "copyGuides"}
AfterTypicalCompositions ==
  pc \in {"flatten", "ordering", "validation", "write", "copyGuides"}
AfterOrdering == pc \in {"validation", "write", "copyGuides"}
AfterValidation == pc \in {"write", "copyGuides"}

Written(p) == disk[p] # <<>>
OnDisk(p) == disk[p][1]

\* the component maps a claim speaks about: the run's own once the pass has
\* run, and the materialized components partition
RecordSets(after) ==
  (IF after THEN {components} ELSE {})
    \cup (IF Written("components") THEN {OnDisk("components")} ELSE {})

FileOf(c) == repo.files[c.filePath]
OwnTag(c) ==
  LET f == FileOf(c)
  IN f.decls[CHOOSE i \in 1..Len(f.decls) : f.decls[i].name = c.name].tag
CallsOtherThan(c) == SelectSeq(FileOf(c).calls, LAMBDA x : x # c.name)

(***************************************************************************)
(* C1: after relationship inference, no ComponentRecord's `requires` list  *)
(* contains a name twice, whichever sources contributed and whether or not *)
(* the source file could be re-read.                                       *)
(***************************************************************************)
C1_RequiresHasNoDuplicates ==
  \A m \in RecordSets(AfterRequiresInference) :
    \A i \in 1..Len(m) : NoDuplicates(m[i].requires)

\* a static-table component whose file was re-read, with a @requires tag
\* naming a name twice and call patterns repeating names already present
C1_Witness ==
  /\ AfterRequiresInference
  /\ \E i \in 1..Len(components) :
       LET c == components[i]
       IN /\ c.name \in DOMAIN knownRelationships
          /\ SourceFileExists(repo, c.filePath)
          /\ ~NoDuplicates(requiresMatch(FileOf(c)))
          /\ CallsOtherThan(c) # <<>>
          /\ Len(c.requires) >= 2

\* the same component when its file could not be re-read
C1_WitnessNotReread ==
  /\ AfterRequiresInference
  /\ ~repo.pathOk
  /\ \E i \in 1..Len(components) : components[i].requires # <<>>

(***************************************************************************)
(* C2: after co-occurrence analysis every value in `coOccurrences` lies in *)
(* [0,1], also when an example's import list names an identifier twice.    *)
(***************************************************************************)
C2_CoOccurrencesWithinUnitInterval ==
  \A m \in RecordSets(AfterCoOccurrence) :
    \A i \in 1..Len(m) :
      \A k \in 1..Len(m[i].coOccurrences) :
        LET e == m[i].coOccurrences[k]
        IN 0 <= e.count /\ e.count <= e.total

(***************************************************************************)
(* C3: for every component A imported by at least one example and every    *)
(* other name B, A.coOccurrences[B] = (examples importing both A and B) /  *)
(* (examples importing A); a missing key stands for 0.                     *)
(***************************************************************************)
ExamplesImporting(names) ==
  {k \in 1..Len(examples) : names \subseteq Range(examples[k].componentsUsed)}

CoValue(c, b) ==
  IF Has(c.coOccurrences, b) THEN Get(c.coOccurrences, b)
  ELSE [name |-> b, count |-> 0, total |-> 1]

ImportedNames == UNION {Range(examples[k].componentsUsed) : k \in 1..Len(examples)}

C3_CoOccurrenceIsShareOfExamples ==
  AfterCoOccurrence =>
    \A i \in 1..Len(components) :
      LET a == components[i]
          nA == Cardinality(ExamplesImporting({a.name}))
      IN nA > 0 =>
           \A b \in (ImportedNames \cup Range(Keys(components))) \ {a.name} :
             CoValue(a, b).count * nA
               = Cardinality(ExamplesImporting({a.name, b})) * CoValue(a, b).total

(***************************************************************************)
(* C4: after co-occurrence analysis, `optionalWith` is exactly the set of  *)
(* keys of `coOccurrences` whose value is > 0.5 and < 1.0; a component     *)
(* imported by no example has both empty.                                  *)
(***************************************************************************)
C4_OptionalWithIsTheBand ==
  /\ \A m \in RecordSets(AfterCoOccurrence) :
       \A i \in 1..Len(m) :
         /\ Range(m[i].optionalWith)
              = {e.name : e \in {x \in Range(m[i].coOccurrences) :
                                   2 * x.count > x.total /\ x.count < x.total}}
         /\ NoDuplicates(m[i].optionalWith)
  /\ AfterCoOccurrence =>
       \A i \in 1..Len(components) :
         ExamplesImporting({components[i].name}) = {} =>
           components[i].optionalWith = <<>> /\ components[i].coOccurrences = <<>>

\* a component with a key inside the band and a component with a key outside
C4_Witness ==
  /\ AfterCoOccurrence
  /\ \E i \in 1..Len(components) : components[i].optionalWith # <<>>
  /\ \E i \in 1..Len(components) :
       /\ components[i].coOccurrences # <<>>
       /\ components[i].optionalWith = <<>>

(***************************************************************************)
(* C5: when an ingestion run fails at run level, that run has written or   *)
(* changed no partition file of the cache directory.                       *)
(***************************************************************************)
C5_FailedRunWritesNothing == pc = "failed" => disk = diskAtStart

(***************************************************************************)
(* C6: in the materialized relationships partition every ordering          *)
(* constraint {before, after} is one entry `after` of                      *)
(* components[before].requires, and every entry of a `requires` list       *)
(* yields exactly one constraint.                                          *)
(***************************************************************************)
OrderingMatchesRequires(ordering, comps) ==
  /\ \A k \in 1..Len(ordering) :
       /\ Has(comps, ordering[k].before)
       /\ Includes(Get(comps, ordering[k].before).requires, ordering[k].after)
  /\ \A i \in 1..Len(comps) :
       \A j \in 1..Len(comps[i].requires) :
         Cardinality({k \in 1..Len(ordering) :
                        /\ ordering[k].before = comps[i].name
                        /\ ordering[k].after = comps[i].requires[j]}) = 1

C6_OrderingConstraintsMatchRequires ==
  /\ AfterOrdering => OrderingMatchesRequires(orderingConstraints, components)
  /\ Written("relationships") =>
       OrderingMatchesRequires(OnDisk("relationships").ordering, OnDisk("components"))

\* a written relationships partition over a component with two requirements
C6_Witness ==
  /\ Written("relationships")
  /\ Len(OnDisk("relationships").ordering) >= 2
  /\ \E i \in 1..Len(OnDisk("components")) :
       Len(OnDisk("components")[i].requires) >= 2

(***************************************************************************)
(* C7: every derived validation rule of severity "error" has the id        *)
(* component-<name>-requires of a component of the map whose `requires`    *)
(* is non-empty.                                                           *)
(***************************************************************************)
ErrorRulesMatchRequires(rules, comps) ==
  \A k \in 1..Len(rules) :
    rules[k].severity = "error" =>
      \E i \in 1..Len(comps) :
        /\ rules[k].id = <<"component", comps[i].name, "requires">>
        /\ comps[i].requires # <<>>

C7_ErrorRulesNameRequiringComponents ==
  /\ AfterValidation => ErrorRulesMatchRequires(validationRules, components)
  /\ Written("relationships") =>
       ErrorRulesMatchRequires(OnDisk("relationships").validation, OnDisk("components"))

C7_Witness ==
  /\ AfterValidation
  /\ \E k \in 1..Len(validationRules) : validationRules[k].severity = "error"
  /\ \E i \in 1..Len(components) : components[i].requires = <<>>

(***************************************************************************)
(* C8: two completed runs against the unchanged checkout leave identical   *)
(* partitions, the ingestDate of the metadata partition excepted.          *)
(***************************************************************************)
WithoutIngestDate(d) ==
  [d EXCEPT !["metadata"] = <<[d["metadata"][1] EXCEPT !.ingestDate = 0]>>]

C8_RunsAreIdempotent ==
  \A i, j \in 1..Len(completed) :
    WithoutIngestDate(completed[i]) = WithoutIngestDate(completed[j])

\* two completed runs with different timestamps, over a checkout with
\* examples and with a static-table component whose table entry was pushed to
C8_Witness ==
  /\ Len(completed) >= 2
  /\ completed[1]["metadata"] # completed[2]["metadata"]
  /\ completed[2]["examples"][1] # <<>>
  /\ \E i \in 1..Len(completed[2]["components"][1]) :
       LET c == completed[2]["components"][1][i]
       IN c.name \in DOMAIN knownRelationships /\ Len(c.requires) >= 2

(***************************************************************************)
(* C9: `requires` is built static table first, then the names of the       *)
(* component's own @requires tag, then the call-pattern names other than   *)
(* its own name; a static-table component with no @requires tag of its own *)
(* and no matching call pattern ends with exactly its static-table entry.  *)
(***************************************************************************)
C9_StaticEntryAloneWithoutTagAndCalls ==
  AfterRequiresInference =>
    \A i \in 1..Len(components) :
      LET c == components[i]
      IN (/\ c.name \in DOMAIN knownRelationships
          /\ OwnTag(c) = <<>>
          /\ CallsOtherThan(c) = <<>>)
           => c.requires = knownRelationships[c.name]

(***************************************************************************)
(* C10: after the cross-reference pass, system S is in C.usedBySystems     *)
(* exactly when C's name is in S.queriesComponents, S appears at most      *)
(* once, and queried names that are not keys of the component map create   *)
(* no record and no entry.                                                 *)
(***************************************************************************)
C10_UsedBySystemsMirrorsQueries ==
  AfterCrossReference =>
    /\ \A i \in 1..Len(components) :
         /\ \A k \in 1..Len(systems) :
              Includes(components[i].usedBySystems, systems[k].name)
                <=> Includes(systems[k].queriesComponents, components[i].name)
         /\ NoDuplicates(components[i].usedBySystems)
         /\ Range(components[i].usedBySystems) \subseteq Range(Keys(systems))
    /\ Keys(components) = Keys(parseComponents(repo))

\* a system that queries two known components and one that queries a name
\* the component map does not hold
C10_Witness ==
  /\ AfterCrossReference
  /\ \E k \in 1..Len(systems) :
       /\ \E n \in Range(systems[k].queriesComponents) : ~Has(components, n)
       /\ \E i \in 1..Len(components) :
            Includes(components[i].usedBySystems, systems[k].name)

C10_WitnessTwoComponents ==
  /\ AfterCrossReference
  /\ \E k \in 1..Len(systems) :
       Cardinality({i \in 1..Len(components) :
                      Includes(components[i].usedBySystems, systems[k].name)}) >= 2

(***************************************************************************)
(* C11: typical composition mining groups the examples by the set of their  *)
(* imported component names (sorted, without repetition) and only sets of   *)
(* at least 2 distinct components: two examples that import the same such   *)
(* set, in any order and with any repetition, give exactly one pattern,     *)
(* which lists each component once and counts every example of the set.     *)
(***************************************************************************)
ComponentSet(example) == Range(example.componentsUsed)
GroupCount(S) ==
  Cardinality({i \in 1..Len(examples) : ComponentSet(examples[i]) = S})
PatternsOf(S) ==
  {k \in 1..Len(typicalCompositions) :
     Range(typicalCompositions[k].components) = S}

C11_ExamplesGroupByComponentSet ==
  AfterTypicalCompositions =>
    \A i, j \in 1..Len(examples) :
      (/\ i < j
       /\ ComponentSet(examples[i]) = ComponentSet(examples[j])
       /\ Cardinality(ComponentSet(examples[i])) >= 2)
      => LET S == ComponentSet(examples[i])
         IN /\ Cardinality(PatternsOf(S)) = 1
            /\ \A k \in PatternsOf(S) :
                 /\ NoDuplicates(typicalCompositions[k].components)
                 /\ typicalCompositions[k].frequency
                      = <<GroupCount(S), Len(examples)>>

(***************************************************************************)
(* C12: a composition group is kept exactly when it occurs in at least 2    *)
(* examples or in strictly more than 10% of all examples; a kept pattern's  *)
(* frequency is its group's count over the number of examples and lies in   *)
(* (0,1]; the list is in non-increasing order of frequency.                 *)
(***************************************************************************)
Groups ==
  {ComponentSet(examples[i]) : i \in 1..Len(examples)}
    \ {S \in SUBSET Range(NameOrder) : Cardinality(S) < 2}

GroupsKeptCorrectly ==
  /\ \A S \in Groups :
       PatternsOf(S) # {}
         <=> (GroupCount(S) >= 2 \/ 10 * GroupCount(S) > Len(examples))
  /\ \A k \in 1..Len(typicalCompositions) :
       LET f == typicalCompositions[k].frequency
       IN /\ f = <<GroupCount(Range(typicalCompositions[k].components)),
                   Len(examples)>>
          /\ 0 < f[1] /\ f[1] <= f[2]
  /\ \A k \in 1..(Len(typicalCompositions) - 1) :
       typicalCompositions[k].frequency[1] * typicalCompositions[k + 1].frequency[2]
         >= typicalCompositions[k + 1].frequency[1] * typicalCompositions[k].frequency[2]

C12_KeptGroupsAndFrequencies == AfterTypicalCompositions => GroupsKeptCorrectly

\* the same, over the examples directories in which no entry file imports a
\* component twice
C12_HoldsWithoutRepeatedImports ==
  (/\ AfterTypicalCompositions
   /\ \A i \in 1..Len(examples) : NoDuplicates(examples[i].componentsUsed))
  => GroupsKeptCorrectly

\* ten examples of which one imports a pair no other example imports
C12_BoundaryReached ==
  /\ AfterTypicalCompositions
  /\ Len(examples) >= 10
  /\ \E S \in Groups : GroupCount(S) = 1 /\ PatternsOf(S) = {}

(***************************************************************************)
(* C20: the derived validation rules are exactly one "error" rule per      *)
(* component with non-empty `requires`, one "warning" rule per component   *)
(* with non-empty `usedBySystems` and the fixed entity-creation rule; no   *)
(* other rule, and every severity is "error" or "warning".                 *)
(***************************************************************************)
RequiresRules(comps) ==
  {[id |-> <<"component", comps[i].name, "requires">>,
     check |-> comps[i].requires, severity |-> "error"] :
     i \in {i \in 1..Len(comps) : comps[i].requires # <<>>}}
UsedBySystemRules(comps) ==
  {[id |-> <<"component", comps[i].name, "system">>,
     check |-> comps[i].usedBySystems, severity |-> "warning"] :
     i \in {i \in 1..Len(comps) : comps[i].usedBySystems # <<>>}}
EntityCreationRule ==
  [id |-> <<"entity-creation">>, check |-> <<>>, severity |-> "warning"]
SystemComponentsRules(syss) ==
  {[id |-> <<"system", syss[k].name, "components">>,
     check |-> syss[k].queriesComponents, severity |-> "warning"] :
     k \in {k \in 1..Len(syss) : syss[k].queriesComponents # <<>>}}

\* `rules` holds each rule of `expected` once and nothing else
RulesAreExactly(rules, expected) ==
  /\ Range(rules) = expected
  /\ NoDuplicates(rules)
  /\ \A k \in 1..Len(rules) : rules[k].severity \in {"error", "warning"}

C20_RulesAreTheThreeFamilies ==
  AfterValidation =>
    RulesAreExactly(validationRules,
      RequiresRules(components) \cup UsedBySystemRules(components)
        \cup {EntityCreationRule})

\* C20 as amended: the same, with one "warning" rule system-<name>-components
\* per system with non-empty `queriesComponents` as a fourth family.
C20_RulesAreTheFourFamilies ==
  AfterValidation =>
    RulesAreExactly(validationRules,
      RequiresRules(components) \cup UsedBySystemRules(components)
        \cup SystemComponentsRules(systems) \cup {EntityCreationRule})

\* a run whose rules hold a member of each family, over a checkout with a
\* component and a system that get no rule
C20_Witness ==
  /\ AfterValidation
  /\ RequiresRules(components) # {}
  /\ UsedBySystemRules(components) # {}
  /\ SystemComponentsRules(systems) # {}
  /\ \E i \in 1..Len(components) : components[i].requires = <<>>
  /\ \E k \in 1..Len(systems) : systems[k].queriesComponents = <<>>

(***************************************************************************)
(* C17: the ingestion stages run strictly in the order scan, extract,      *)
(* infer, harvest, materialize; no stage reads the component map, the      *)
(* system map or the example list before the stage that populates it has   *)
(* finished, and ordering constraints and validation rules are derived     *)
(* only after `requires` and `usedBySystems` are final.                    *)
(***************************************************************************)
ExtractPositions == {"parseComponents", "parseSystems", "parseTypes"}
HarvestPositions == {"parseExamples"}
RecordInferencePositions ==
  {"extractRelationships", "buildSystemRelationships", "analyzeCoOccurrences",
   "typicalCompositions"}
DerivationPositions == {"flatten", "ordering", "validation"}
MaterializePositions == {"write", "copyGuides"}
InRun(p) ==
  p \in ExtractPositions \cup HarvestPositions \cup RecordInferencePositions
          \cup DerivationPositions \cup MaterializePositions

\* the stage about to run at position p, numbered as the claim orders them:
\* extract 1, infer 2, harvest 3, materialize 4
ClaimedStage(p) ==
  CASE p \in ExtractPositions -> 1
    [] p \in RecordInferencePositions \cup DerivationPositions -> 2
    [] p \in HarvestPositions -> 3
    [] p \in MaterializePositions -> 4

\* the same with harvest before infer, and the inference split into the
\* passes that write the records (3) and the derivations that read them (4)
CodeStage(p) ==
  CASE p \in ExtractPositions -> 1
    [] p \in HarvestPositions -> 2
    [] p \in RecordInferencePositions -> 3
    [] p \in DerivationPositions -> 4
    [] p \in MaterializePositions -> 5

\* once the stage that populates a structure is over, the structure is final
PopulatedBeforeRead ==
  /\ CodeStage(pc) >= 2 => systems' = systems /\ types' = types
                             /\ Keys(components') = Keys(components)
  /\ CodeStage(pc) >= 3 => examples' = examples
  /\ CodeStage(pc) >= 4 => components' = components
                             /\ typicalCompositions' = typicalCompositions

C17_StagesInClaimedOrder ==
  [][(InRun(pc) /\ InRun(pc')) => ClaimedStage(pc) <= ClaimedStage(pc')]_vars

\* C17 as amended: the stages run in the order scan and extract, harvest,
\* infer, materialize; the rest as claimed.
C17_StagesInCodeOrder ==
  [][(InRun(pc) /\ InRun(pc')) =>
       (CodeStage(pc) <= CodeStage(pc') /\ PopulatedBeforeRead)]_vars

\* a run about to materialize: examples were harvested, the inference gave
\* some component a `requires` and a `usedBySystems`, and ordering
\* constraints and validation rules were derived from them
C17_Witness ==
  /\ pc = "write"
  /\ examples # <<>>
  /\ \E i \in 1..Len(components) :
       components[i].requires # <<>> /\ components[i].usedBySystems # <<>>
  /\ orderingConstraints # <<>>
  /\ Len(validationRules) >= 3

(***************************************************************************)
(* C18: the component, system and type maps are keyed by declaration name, *)
(* last write wins: after scanning there is exactly one record per         *)
(* declared name, and it is the record of the declaring file visited last, *)
(* the packages being visited in the order core, xr-input, glxf,           *)
(* locomotor and the files of a package in listing order.                  *)
(***************************************************************************)
PackageRank(pkg) ==
  CASE pkg = "core" -> 1 [] pkg = "xr-input" -> 2 [] pkg = "glxf" -> 3
    [] pkg = "locomotor" -> 4

\* file j of the listing is visited before file i
VisitedBefore(listing, j, i) ==
  \/ PackageRank(listing[j].pkg) < PackageRank(listing[i].pkg)
  \/ listing[j].pkg = listing[i].pkg /\ j < i

LastVisited(listing, declaring) ==
  CHOOSE i \in declaring : \A j \in declaring \ {i} : VisitedBefore(listing, j, i)

ComponentFilesDeclaring(n) ==
  {i \in 1..Len(repo.files) :
     \E d \in 1..Len(repo.files[i].decls) : repo.files[i].decls[d].name = n}
Declaring(listing, n) == {i \in 1..Len(listing) : listing[i].name = n}

\* one record per declared name, taken from the file visited last
KeyedLastWriteWins(map, names, declaring(_), listing) ==
  /\ NoDuplicates(Keys(map))
  /\ Range(Keys(map)) = names
  /\ \A k \in 1..Len(map) :
       LET last == LastVisited(listing, declaring(map[k].name))
       IN /\ map[k].filePath = last
          /\ map[k].package = PackageId(listing[last].pkg)

SystemsFromLastFile(syss) ==
  \A k \in 1..Len(syss) :
    syss[k].queriesComponents
      = extractQueriedComponents(repo.systems[syss[k].filePath])
TypesFromLastFile(tys) ==
  \A k \in 1..Len(tys) : tys[k].kind = repo.types[tys[k].filePath].kind

MapsAreLastWriteWins(comps, syss, tys) ==
  /\ KeyedLastWriteWins(comps,
       {n \in DeclNames : ComponentFilesDeclaring(n) # {}},
       ComponentFilesDeclaring, repo.files)
  /\ KeyedLastWriteWins(syss,
       {repo.systems[i].name : i \in 1..Len(repo.systems)},
       LAMBDA n : Declaring(repo.systems, n), repo.systems)
  /\ SystemsFromLastFile(syss)
  /\ KeyedLastWriteWins(tys,
       {repo.types[i].name : i \in 1..Len(repo.types)},
       LAMBDA n : Declaring(repo.types, n), repo.types)
  /\ TypesFromLastFile(tys)

AfterScan == InRun(pc) /\ pc \notin ExtractPositions

C18_MapsAreLastWriteWins ==
  /\ AfterScan => MapsAreLastWriteWins(components, systems, types)
  /\ (Written("components") /\ Written("systems") /\ Written("types")) =>
       MapsAreLastWriteWins(OnDisk("components"), OnDisk("systems"), OnDisk("types"))

\* a component declared in a core file and in an xr-input file, the xr-input
\* file first in the listing and last in the traversal
C18_Witness ==
  /\ AfterScan
  /\ \E i, j \in 1..Len(repo.files) :
       /\ i < j
       /\ repo.files[i].pkg = "xr-input" /\ repo.files[j].pkg = "core"
       /\ \E n \in DeclNames :
            /\ {i, j} \subseteq ComponentFilesDeclaring(n)
            /\ Get(components, n).filePath = i

\* a system class declared twice with different `required` arrays, and a
\* type declared twice with different kinds
C18_WitnessSystems ==
  /\ AfterScan
  /\ \E i, j \in 1..Len(repo.systems) :
       /\ i # j /\ repo.systems[i].name = repo.systems[j].name
       /\ repo.systems[i].required # repo.systems[j].required
       /\ Get(systems, repo.systems[i].name).filePath = i
       /\ VisitedBefore(repo.systems, j, i)

C18_WitnessTypes ==
  /\ AfterScan
  /\ \E i, j \in 1..Len(repo.types) :
       /\ i < j /\ repo.types[i].name = repo.types[j].name
       /\ repo.types[i].kind # repo.types[j].kind
       /\ repo.types[i].pkg = "xr-input" /\ repo.types[j].pkg = "core"
       /\ Get(types, repo.types[i].name).filePath = i

(***************************************************************************)
(* C19: the exports partition holds one entry per ingested package, which  *)
(* lists exactly the components, systems and types owned by that package,  *)
(* so that the lookup of an ingested package's exports finds an entry.     *)
(***************************************************************************)
OwnedBy(map, packageName) ==
  {map[i].name : i \in {i \in 1..Len(map) : map[i].package = packageName}}

IngestedPackages ==
  {rec.package : rec \in Range(OnDisk("components")) \cup Range(OnDisk("systems"))
                            \cup Range(OnDisk("types"))}

C19_ExportsListEachPackagesOwn ==
  (Written("components") /\ Written("systems") /\ Written("types")
     /\ Written("exports")) =>
    \A packageName \in IngestedPackages :
      LET found == getPackageExports(OnDisk("exports"), packageName)
      IN /\ found # <<>>
         /\ Range(found[1].components) = OwnedBy(OnDisk("components"), packageName)
         /\ Range(found[1].systems) = OwnedBy(OnDisk("systems"), packageName)
         /\ Range(found[1].types) = OwnedBy(OnDisk("types"), packageName)

(***************************************************************************)
(* C13: every tool call the server receives appends exactly one telemetry  *)
(* record (timestamp, tool name, sanitized params), and appends it before  *)
(* the tool is dispatched, whatever the tool name and also when the call   *)
(* carries no arguments.  Calls during which the file system refused the   *)
(* append are left aside (C14 is about those).                             *)
(***************************************************************************)
\* the calls that are past the logging step
LoggedCalls ==
  IF srv = "logging" THEN 1..(callCount - 1) ELSE 1..callCount

RecordsOf(k) == {i \in 1..Len(telemetry) : telemetry[i].timestamp = k}

C13_EveryCallIsLoggedOnce ==
  /\ \A k \in LoggedCalls \ failedCalls : Cardinality(RecordsOf(k)) = 1
  /\ (srv \in {"listening", "dispatching"} /\ callCount \in LoggedCalls \ failedCalls)
       => telemetry[Len(telemetry)]
            = [timestamp |-> callCount, tool |-> request.name,
               params |-> sanitizeParams(IF request.args = <<>> THEN <<>>
                                         ELSE request.args[1])]

(***************************************************************************)
(* C14: a failure while logging telemetry never propagates: the handler    *)
(* goes on to dispatch the tool, and the call returns the response it      *)
(* returns when logging succeeds.                                          *)
(***************************************************************************)
SameResponse(a, b) == a[1] = b[1] /\ a = b

C14_LoggingFailureDoesNotChangeTheResponse ==
  (srv = "listening" /\ callCount \in failedCalls)
    => SameResponse(response, callTool(request, cache, enhancedCache, disk).response)

\* a call whose telemetry append failed and whose tool answered from the cache
C14_Witness ==
  /\ srv = "listening"
  /\ callCount \in failedCalls
  /\ telemetry = <<>>
  /\ response[1] = "Validation Rules"

(***************************************************************************)
(* C15: when a cache partition file is missing the serving layer stops at  *)
(* startup with a message telling the operator to rerun ingestion; it does *)
(* not start serving and answer a tool call with a raw file error.         *)
(***************************************************************************)
MissingPartitions == {p \in Range(LoadedPartitions) : disk[p] = <<>>}

C15_MissingPartitionStopsTheServer ==
  MissingPartitions # {} =>
    ~(srv = "listening" /\ response # <<>> /\ response[1] = "Error"
        /\ response[2] \in {readRejects(disk, p) : p \in MissingPartitions})

(***************************************************************************)
(* C16: no sequence of tool calls changes the loaded cache: what the       *)
(* loader holds stays equal to what it loaded, and no tool writes to a     *)
(* cache partition file.                                                   *)
(***************************************************************************)
C16_ToolsLeaveTheCacheAlone ==
  /\ disk = diskAtStart
  /\ enhancedCache # <<>> => enhancedCache[1] = EnhancedCacheData(diskAtStart)
  /\ cache # <<>> => cache[1] = CacheData(EnhancedCacheData(diskAtStart))

\* find_similar_code has answered with the second example of the cache ahead
\* of the first
C16_Witness ==
  /\ srv = "listening"
  /\ request.name = "find_similar_code"
  /\ response[1] = "Similar Code Examples"
  /\ Len(response[3]) >= 2
  /\ response[3][1].example = cache[1].codeExamples[2]
  /\ response[3][2].example = cache[1].codeExamples[1]

(***************************************************************************)
(* C21: a run whose root path, packages/ directory or packages/core        *)
(* directory is missing fails before any source file is parsed and before  *)
(* anything is written, with a message that names what is missing and a    *)
(* non-zero exit; a missing src directory of a sub-package is skipped and  *)
(* the run goes on with the remaining packages: it never fails on the      *)
(* missing directory, and after the scan the maps hold every declaration   *)
(* of the source directories that exist.                                   *)
(***************************************************************************)
RootIsMissing ==
  \/ "." \notin repo.dirs
  \/ "packages" \notin repo.dirs
  \/ "packages/core" \notin repo.dirs
MissingSrc == {pkg \in Range(Packages) : SrcDir(pkg) \notin repo.dirs}
NothingParsed ==
  components = <<>> /\ systems = <<>> /\ types = <<>> /\ examples = <<>>
DescriptiveMessage ==
  IF "." \notin repo.dirs THEN "Repository path does not exist"
  ELSE IF "packages" \notin repo.dirs
       THEN "Not a valid IWSDK repository (missing packages/ directory)"
  ELSE "Not a valid IWSDK repository (missing packages/core)"
DeclaredIn(listing) ==
  {listing[i].name : i \in {j \in 1..Len(listing) : listing[j].pkg \notin MissingSrc}}
ComponentsDeclared ==
  UNION {{repo.files[i].decls[k].name : k \in 1..Len(repo.files[i].decls)} :
           i \in {j \in 1..Len(repo.files) : repo.files[j].pkg \notin MissingSrc}}

C21_MissingRootFailsFirstMissingSrcIsSkipped ==
  /\ RootIsMissing =>
       /\ pc \in {"idle", "validate", "failed"}
       /\ NothingParsed
       /\ disk = EmptyCache
       /\ pc = "failed" => stderr = <<DescriptiveMessage>>
  /\ ~RootIsMissing =>
       /\ stderr \in {<<>>, <<"EIO: i/o error, read">>, <<"EIO: i/o error, write">>,
                      <<"EIO: i/o error, copyfile">>}
       /\ AfterScan =>
            /\ Range(Keys(components)) = ComponentsDeclared
            /\ Range(Keys(systems)) = DeclaredIn(repo.systems)
            /\ Range(Keys(types)) = DeclaredIn(repo.types)

\* a run over a checkout without packages/core/src has completed and has
\* written the component of packages/xr-input/src
C21_Witness ==
  /\ pc = "done"
  /\ ~RootIsMissing
  /\ "core" \in MissingSrc
  /\ Written("components")
  /\ Has(OnDisk("components"), "Interactable")

\* a run over a checkout without packages/ has exited with status 1
C21_WitnessInvalidRoot ==
  /\ pc = "failed"
  /\ repo.dirs = {"."}

(***************************************************************************)
(* C22: a component's description is the third argument of its             *)
(* createComponent call when there is one, without the quote characters;   *)
(* otherwise the summary of the nearest preceding doc comment; otherwise   *)
(* the empty string.  createComponent('Interactable', {}, 'Marks an entity *)
(* as interactive') gives a record named Interactable with that            *)
(* description and an empty `fields` list.                                 *)
(***************************************************************************)
DeclarationOf(c) ==
  LET f == FileOf(c)
  IN f.decls[CHOOSE i \in 1..Len(f.decls) : f.decls[i].name = c.name]
NearestSummary(d) ==
  IF d.jsDoc = <<>> \/ d.jsDoc[Len(d.jsDoc)] = <<>> THEN <<>>
  ELSE <<"An interactive entity">>
ExpectedDescription(d) ==
  CASE d.arg3 = <<>> -> NearestSummary(d)
    [] d.arg3 = << <<"'", "Marks an entity as interactive", "'">> >> ->
         <<"Marks an entity as interactive">>
    [] d.arg3 = << <<"\"", "Marks an entity", "'", "s state", "\"">> >> ->
         <<"Marks an entity", "s state">>
    [] d.arg3 = << <<"'", "'">> >> -> <<>>
DescriptionsResolved(comps) ==
  \A i \in 1..Len(comps) :
    LET c == comps[i]
        d == DeclarationOf(c)
    IN /\ c.description = ExpectedDescription(d)
       /\ (d.arg3 = << <<"'", "Marks an entity as interactive", "'">> >>
             /\ d.schema = <<>>) =>
            /\ c.name = "Interactable"
            /\ c.description = <<"Marks an entity as interactive">>
            /\ c.fields = <<>>

C22_DescriptionIsPrioritizedFallback ==
  \A comps \in RecordSets(AfterScan) : DescriptionsResolved(comps)

\* the declaration of the example, under a doc comment with a summary of its
\* own, has been written to the components partition
C22_Witness ==
  /\ Written("components")
  /\ \E i \in 1..Len(OnDisk("components")) :
       LET d == DeclarationOf(OnDisk("components")[i])
       IN /\ d.arg3 = << <<"'", "Marks an entity as interactive", "'">> >>
          /\ d.schema = <<>>
          /\ NearestSummary(d) # <<>>

\* a declaration without a third argument under two doc comments
C22_WitnessDocComment ==
  /\ Written("components")
  /\ \E i \in 1..Len(OnDisk("components")) :
       LET d == DeclarationOf(OnDisk("components")[i])
       IN d.arg3 = <<>> /\ Len(d.jsDoc) = 2

(***************************************************************************)
(* C23: validate_code detects missing required components: for every      *)
(* component C of the cache with a non-empty `requires` list, when the     *)
(* submitted code contains C's name and does not contain some R of         *)
(* C.requires, the result lists an issue that names R as missing; the      *)
(* result says "No issues found" exactly when it lists no issue and no     *)
(* suggestion.                                                             *)
(***************************************************************************)
ValidateCodeAnswered ==
  /\ srv = "listening"
  /\ request.name = "validate_code"
  /\ request.args # <<>>
  /\ response # <<>>
  /\ response[1] = "Code Validation Results"
SubmittedCode == request.args[1][1].value
SectionItems(title) ==
  UNION {Range(response[2][i].items) :
           i \in {j \in 1..Len(response[2]) : response[2][j].title = title}}
SectionTitles == {response[2][i].title : i \in 1..Len(response[2])}
NamesMissing(item, c, r) ==
  /\ item[1] = c
  /\ item[Len(item) - 1] = "- Missing"
  /\ item[Len(item)] = r

C23_ValidateCodeReportsMissingRequirements ==
  ValidateCodeAnswered =>
    /\ \A i \in 1..Len(OnDisk("components")) :
         LET c == OnDisk("components")[i]
         IN \A k \in 1..Len(c.requires) :
              (CodeHas(SubmittedCode, c.name) /\ ~CodeHas(SubmittedCode, c.requires[k]))
                => \E item \in SectionItems("Issues Found") :
                     NamesMissing(item, c.name, c.requires[k])
    /\ ("No issues found" \in SectionTitles)
         <=> (SectionItems("Issues Found") = {} /\ SectionItems("Suggestions") = {})

\* code that uses OneHandGrabbable together with Interactable, checked
\* against a cache in which OneHandGrabbable requires Interactable and
\* PhysicsShape: one issue, about PhysicsShape
C23_Witness ==
  /\ ValidateCodeAnswered
  /\ CodeHas(SubmittedCode, "OneHandGrabbable")
  /\ CodeHas(SubmittedCode, "Interactable")
  /\ Cardinality(SectionItems("Issues Found")) = 1
  /\ \E item \in SectionItems("Issues Found") :
       NamesMissing(item, "OneHandGrabbable", "PhysicsShape")

\* code with nothing to report
C23_WitnessNoIssues ==
  /\ ValidateCodeAnswered
  /\ CodeHas(SubmittedCode, "OneHandGrabbable")
  /\ SectionTitles = {"No issues found"}

(***************************************************************************)
(* C28: no component requires itself: after requires inference no          *)
(* component's own name is in its `requires` list, so no REQUIRES edge has *)
(* from = to and no ordering constraint has before = after, whichever of   *)
(* the static table, the @requires tag and the call pattern supplied the   *)
(* name.                                                                   *)
(***************************************************************************)
RequiresItself(c) == Includes(c.requires, c.name)

C28_NoComponentRequiresItself ==
  /\ \A comps \in RecordSets(AfterRequiresInference) :
       \A i \in 1..Len(comps) : ~RequiresItself(comps[i])
  /\ Written("relationships") =>
       /\ \A i \in 1..Len(OnDisk("relationships").componentRequires) :
            OnDisk("relationships").componentRequires[i].from
              # OnDisk("relationships").componentRequires[i].to
       /\ \A i \in 1..Len(OnDisk("relationships").ordering) :
            OnDisk("relationships").ordering[i].before
              # OnDisk("relationships").ordering[i].after

\* the same, for the components that get no name from a @requires tag: the
\* static table and the call pattern never supply a component's own name
C28_HoldsWithoutTags ==
  \A comps \in RecordSets(AfterRequiresInference) :
    \A i \in 1..Len(comps) :
      (~SourceFileExists(repo, comps[i].filePath)
         \/ requiresMatch(FileOf(comps[i])) = <<>>)
        => ~RequiresItself(comps[i])

\* a component whose file has hasComponent(entity, <its own name>) and no
\* @requires tag has gone through requires inference
C28_CallPatternReached ==
  /\ AfterRequiresInference
  /\ \E i \in 1..Len(components) :
       /\ SourceFileExists(repo, components[i].filePath)
       /\ requiresMatch(FileOf(components[i])) = <<>>
       /\ Includes(FileOf(components[i]).calls, components[i].name)

(***************************************************************************)
(* C30: every template name scaffold_project advertises (minimal,          *)
(* interactive, locomotion, ui-demo, full-featured: the enum of its input  *)
(* schema and the list of its not-found reply) yields a project scaffold,  *)
(* not the "Template ... not found" reply.                                 *)
(***************************************************************************)
ScaffoldAnswered ==
  /\ srv = "listening"
  /\ request.name = "scaffold_project"
  /\ request.args # <<>>
  /\ response # <<>>
RequestedTemplate == Param(request.args[1], "template")[1]

C30_AdvertisedTemplatesScaffold ==
  (ScaffoldAnswered /\ RequestedTemplate \in Range(AdvertisedTemplates))
    => response[1] = "Project scaffold"

\* the three templates the object literal defines do scaffold, and a name
\* that is not advertised does not
C30_DefinedTemplatesScaffold ==
  ScaffoldAnswered =>
    /\ RequestedTemplate \in {"minimal", "interactive", "locomotion"}
         => response[1] = "Project scaffold"
    /\ RequestedTemplate \notin Range(AdvertisedTemplates)
         => response[1] = "Template not found"

C30_ScaffoldReached ==
  /\ ScaffoldAnswered
  /\ RequestedTemplate = "locomotion"
  /\ response[1] = "Project scaffold"

(***************************************************************************)
(* C25: get_validation_rules and get_common_mistakes, whose only parameter *)
(* is optional, return all validation rules (all common mistakes) when     *)
(* called without that parameter, also when the request carries no         *)
(* arguments object at all.                                                *)
(***************************************************************************)
OptionalParameter ==
  CASE request.name = "get_validation_rules" -> "componentOrSystem"
    [] request.name = "get_common_mistakes" -> "query"
CalledWithoutParameter ==
  /\ srv = "listening"
  /\ response # <<>>
  /\ request.name \in {"get_validation_rules", "get_common_mistakes"}
  /\ (request.args = <<>> \/ ~Has(request.args[1], OptionalParameter))
  /\ MissingPartitions = {}
ReturnsEverything ==
  IF request.name = "get_validation_rules"
  THEN /\ response[1] = "Validation Rules"
       /\ response[3] = OnDisk("relationships").validation
  ELSE /\ response[1] = "Common Mistakes Guide"
       /\ Len(response[3]) = Len(OnDisk("common-mistakes"))
       /\ \A i \in 1..Len(response[3]) :
            response[3][i] = OnDisk("common-mistakes")[i].title

C25_NoParameterReturnsEverything == CalledWithoutParameter => ReturnsEverything

\* the same for the calls that carry an arguments object, `{}`
C25_EmptyArgumentsReturnEverything ==
  (CalledWithoutParameter /\ request.args # <<>>) => ReturnsEverything

C25_EmptyArgumentsReached ==
  /\ CalledWithoutParameter
  /\ request.args # <<>>
  /\ request.name = "get_common_mistakes"

(***************************************************************************)
(* C29: when get_component_schema is asked for an unknown component, the   *)
(* reply lists at most 15 known component names, and the number N of its   *)
(* "... and N more" is the number of known components it does not list; N  *)
(* is never negative, however many components the cache holds.             *)
(***************************************************************************)
ComponentNotFound ==
  /\ srv = "listening"
  /\ request.name = "get_component_schema"
  /\ response # <<>>
  /\ response[1] = "Component not found"
ListedNames == response[3]
AndMore == response[4][1]
RemainderIsRight ==
  /\ Len(ListedNames) <= 15
  /\ AndMore = Len(OnDisk("components")) - Len(ListedNames)
  /\ AndMore >= 0

C29_NotFoundReplyCountsTheRest == ComponentNotFound => RemainderIsRight

\* the count is right from 15 components on
C29_RightFromFifteenOn ==
  (ComponentNotFound /\ Len(OnDisk("components")) >= 15) => RemainderIsRight

C29_SixteenReached ==
  /\ ComponentNotFound
  /\ Len(OnDisk("components")) = 16
  /\ AndMore = 1


(***************************************************************************)
(* C26: the tool-call handler never lets an exception escape: for every    *)
(* request (known tool, unknown tool name, missing arguments, cache files  *)
(* missing or unparsable) it returns a text response, every failure is     *)
(* reported as `Error: ` followed by the failure's message, and a failed   *)
(* call leaves the server listening for the next call.                     *)
(***************************************************************************)
ReadsTheCache(req) == req.name \notin {"scaffold_project", "no_such_tool"}

UnreadablePartitions == {p \in Range(LoadedPartitions) : Len(disk[p]) # 1}

\* what goes wrong with the call of req while the loader holds memo, <<>>
\* when nothing does
FailureOf(req, memo) ==
  IF req.args = <<>> THEN <<"Missing arguments">>
  ELSE IF req.name = "no_such_tool" THEN <<"Unknown tool", req.name>>
  ELSE IF ReadsTheCache(req) /\ memo = <<>> /\ UnreadablePartitions # {}
  THEN LET p == CHOOSE q \in UnreadablePartitions : TRUE
       IN IF disk[p] = <<>>
          THEN <<"ENOENT: no such file or directory, open", p>>
          ELSE <<"Unexpected end of JSON input", p>>
  ELSE IF req.name = "find_similar_code" /\ req.args[1] = <<>>
  THEN <<"Cannot read properties of undefined", "toLowerCase">>
  ELSE <<>>

HandlerReturns ==
  \/ srv = "dispatching"
  \/ callCount' # callCount /\ request'.args = <<>>

C26_WitnessUnparsable ==
  /\ srv = "listening"
  /\ response # <<>>
  /\ response[1] = "Error"
  /\ response[2][1] = "Unexpected end of JSON input"


(***************************************************************************)
(* C27: within one server process the partition files are read at most     *)
(* once: under any interleaving of tool calls, also when several arrive    *)
(* before the first load has completed, only one load is performed and all *)
(* callers observe the same cache object; a load that fails leaves nothing *)
(* memoized, so a later call retries.                                      *)
(***************************************************************************)
Returned == {c \in Callers : loaders[c].stage = "returned"}

\* the calls whose own reads built the object they returned
CompletedLoads == {c \in Returned : loaders[c].observed = c}

C27_OneLoadOneObject ==
  /\ Cardinality(CompletedLoads) <= 1
  /\ \A a, b \in Returned : loaders[a].observed = loaders[b].observed

\* the part of C27 about failed loads: while every load so far was rejected
\* nothing is memoized, and a call that enters then reads the files again
C27_FailedLoadLeavesNothingMemoized ==
  [][/\ (\A c \in Callers : loaders[c].stage \in {"idle", "rejected"}) =>
          enhancedCache = <<>>
     /\ \A c \in Callers :
          (/\ loaders[c].stage = "idle"
           /\ loaders'[c].stage # "idle"
           /\ \E b \in Callers : loaders[b].stage = "rejected"
           /\ enhancedCache = <<>>) => loaders'[c].stage = "reading"]_vars

\* a second call entered after the first one's load was rejected
C27_RetryReached ==
  /\ loaders[1].stage = "rejected"
  /\ loaders[2].stage = "reading"


(***************************************************************************)
(* C24: if ingestion runs again while a server process loads the cache,    *)
(* the snapshot the server ends up serving is entirely the previous run's  *)
(* output or entirely the new one: in the loaded cache the REQUIRES edges  *)
(* and the ordering constraints of the relationships partition agree with  *)
(* the `requires` lists of the loaded components partition.                *)
(***************************************************************************)
EdgesMatchRequires(edges, comps) ==
  /\ \A k \in 1..Len(edges) :
       /\ Has(comps, edges[k].from)
       /\ Includes(Get(comps, edges[k].from).requires, edges[k].to)
  /\ \A i \in 1..Len(comps) :
       \A j \in 1..Len(comps[i].requires) :
         \E k \in 1..Len(edges) :
           edges[k].from = comps[i].name /\ edges[k].to = comps[i].requires[j]

C24_LoadedSnapshotIsOneRun ==
  enhancedCache # <<>> =>
    /\ EdgesMatchRequires(enhancedCache[1].relationships.componentRequires,
                          enhancedCache[1].components)
    /\ OrderingMatchesRequires(enhancedCache[1].constraints.ordering,
                               enhancedCache[1].components)

\* a load that ran while partitions were being written and still got the
\* output of one run
C24_LoadDuringWritesReached ==
  /\ enhancedCache # <<>>
  /\ pc = "write"
  /\ wi > 1
  /\ EnhancedCacheData(disk) # enhancedCache[1]

====
